---------------------------- MODULE Spec2Model ----------------------------
(***************************************************************************)
(* Model of the task lifecycle of cpact's connections (LocalConnection and *)
(* SSHConnection: background_tasks, completed_tasks, the background worker,*)
(* wait_for_task, terminate_task, close_task) and of the continued-step    *)
(* pipeline built on it (CommandExecutor, StepExecutor, Orchestrator).     *)
(*                                                                         *)
(* A block of the source that runs under `with self.lock:` and does not    *)
(* block inside is one atomic action.  The one place where the source      *)
(* blocks while it holds the lock (SSHConnection._background_worker,       *)
(* recv_exit_status) is modelled with the explicit variable `lock`.        *)
(*                                                                         *)
(* ConnectionFactory.create_connection builds a new connection object for  *)
(* every step, so every background task has a connection, a registry and a *)
(* lock of its own: the registry variables are keyed by task id.           *)
(***************************************************************************)
EXTENDS Integers, Sequences, FiniteSets, TLC

(***************************************************************************)
(* Bounds of the model.                                                    *)
(***************************************************************************)
\* number of task ids that can be drawn (one per started background task)
MaxTasks == 1

TaskIds == 1..MaxTasks

(***************************************************************************)
(* TaskStatus, TaskResult (constants.py).  A TaskResult is abstracted to   *)
(* the four fields the callers read; the time stamps are left out.         *)
(***************************************************************************)
RUNNING == "RUNNING"
COMPLETED == "COMPLETED"
FAILED == "FAILED"
TIMEOUT == "TIMEOUT"
TERMINATED == "TERMINATED"

TerminalStatuses == {COMPLETED, FAILED, TIMEOUT, TERMINATED}

TaskResult(status, return_code, stdout, stderr) ==
    [status |-> status, return_code |-> return_code, stdout |-> stdout, stderr |-> stderr]

\* Python's None where a TaskResult is expected
None == TaskResult("None", 0, "", "")

\* what a command can print: nothing, or some text
Outputs == {"", "out"}

\* exit codes of a command that exits by itself
ExitCodes == {0, 1}

Transports == {"local", "ssh"}

VARIABLES
    \* ---- the registry of a connection, keyed by task id
    conn,              \* task id -> "none" | "local" | "ssh": transport the task runs on
    background_tasks,  \* set of task ids: keys of self.background_tasks
    completed_tasks,   \* task id -> TaskResult or None: self.completed_tasks
    terminated,        \* task id -> BOOLEAN: BackgroundTask.terminated
    channels,          \* task id -> BOOLEAN: BackgroundTask.channels is set
    completed,         \* task id -> BOOLEAN: BackgroundTask.completed (Event)
    result_queue,      \* task id -> Seq(TaskResult): BackgroundTask.result_queue
    lock,              \* task id -> BOOLEAN: the SSH worker holds self.lock while blocked
    \* ---- the process (local) or remote command and channel (ssh) of a task
    process,           \* task id -> "none" | "running" | "exited" | "closed"
    returncode,        \* task id -> exit code of the process
    cmd_stdout,        \* task id -> what the command has printed
    \* ---- the worker thread of a task
    worker,            \* task id -> position of _background_worker
    stdout_data,       \* task id -> stdout the SSH worker has read so far
    exit_code,         \* task id -> local exit_code of the SSH worker
    result,            \* task id -> local result of the worker
    \* ---- the thread calling wait_for_task
    wt_pc, wt_task, wt_timeout, wt_expired,
    \* ---- the thread calling terminate_task
    tm_pc, tm_task,
    \* ---- history of the calls, read only by the properties
    exec_ret,          \* task id -> status of the TaskResult execute_command returned
    exec_none,         \* execute_command has returned None
    last_wait,         \* the last wait_for_task call that returned
    last_term,         \* the last terminate_task call that returned
    term_acted,        \* task id -> a terminate_task call found the task running and returned
    observed_flag,     \* task id -> the SSH worker read terminated = True for its status
    stored,            \* task id -> completed_tasks has held a result of the task
    closed,            \* task id -> the task's result was removed by close_task
    \* ---- Orchestrator._run_steps and the Context of the run
    run_pc,            \* position of _run_steps
    step_index,        \* number of inline steps the loop of _run_steps has run
    run_status,        \* local run_status of _run_steps
    parameters_to_set, \* Context.parameters_to_set: diagnostic key -> value
    continued_steps,   \* Context.continued_steps[test_id], in insertion order
    fin_index,         \* position of finalize_all_continued_steps in continued_steps
    last_step,         \* the last inline step StepExecutor.run has returned from
    \* ---- the scenario run with nested scenarios and the ResultCollector
    test_id,           \* Context.data["test_id"]
    nest_index,        \* number of steps the loop of ScenarioRunner.run has run
    nest_status,       \* local run_status of ScenarioRunner.run
    nested_steps,      \* the steps of the invoked scenario file that have been read
    nested_len,        \* number of steps of the invoked scenario file, 0 while not known
    step_results,      \* ResultCollector.step_results
    result_index,      \* ResultCollector.step_index: step id -> index in step_results
    results,           \* local results of finalize_all_continued_steps: scenario id -> record
    \* ---- history of the scenario run, read only by the properties
    started,           \* number of inline steps StepExecutor.run was called for
    registered,        \* number of add_continued_step calls
    key_writer,        \* diagnostic key -> start number of the step that wrote it last
    fin_pass,          \* number of finalize_all_continued_steps calls
    last_run,          \* more about the step of last_step
    last_fin,          \* the last continued step validate_continued_step has finalized
    \* ---- one call of a function of the library, followed on its own
    call,              \* the arguments of the call
    ret                \* what the call has returned, NotReturned before

conn_vars == <<conn, background_tasks, completed_tasks, terminated, channels,
               completed, result_queue, lock>>
proc_vars == <<process, returncode, cmd_stdout>>
worker_vars == <<worker, stdout_data, exit_code, result>>
wait_vars == <<wt_pc, wt_task, wt_timeout, wt_expired>>
term_vars == <<tm_pc, tm_task>>
hist_vars == <<exec_ret, exec_none, last_wait, last_term, term_acted,
               observed_flag, stored, closed>>

scen_vars == <<test_id, nest_index, nest_status, nested_steps, nested_len,
               step_results, result_index, results,
               started, registered, key_writer, fin_pass, last_run, last_fin>>

lib_vars == <<call, ret>>

run_vars == <<run_pc, step_index, run_status, parameters_to_set, continued_steps,
              fin_index, last_step, scen_vars, lib_vars>>

vars == <<conn_vars, proc_vars, worker_vars, wait_vars, term_vars, hist_vars, run_vars>>

NoCall == [task |-> 0, ret |-> None, expired |-> FALSE, finite |-> FALSE]
NoTerm == [task |-> 0, ret |-> FALSE, found |-> FALSE]

(***************************************************************************)
(* LocalConnection.__init__ / SSHConnection.__init__: empty registries.    *)
(***************************************************************************)
InitConnection ==
    /\ conn = [t \in TaskIds |-> "none"]
    /\ background_tasks = {}
    /\ completed_tasks = [t \in TaskIds |-> None]
    /\ terminated = [t \in TaskIds |-> FALSE]
    /\ channels = [t \in TaskIds |-> FALSE]
    /\ completed = [t \in TaskIds |-> FALSE]
    /\ result_queue = [t \in TaskIds |-> <<>>]
    /\ lock = [t \in TaskIds |-> FALSE]
    /\ process = [t \in TaskIds |-> "none"]
    /\ returncode = [t \in TaskIds |-> 0]
    /\ cmd_stdout = [t \in TaskIds |-> ""]
    /\ worker = [t \in TaskIds |-> "idle"]
    /\ stdout_data = [t \in TaskIds |-> ""]
    /\ exit_code = [t \in TaskIds |-> -1]
    /\ result = [t \in TaskIds |-> None]
    /\ wt_pc = "idle" /\ wt_task = 0 /\ wt_timeout = "none" /\ wt_expired = FALSE
    /\ tm_pc = "idle" /\ tm_task = 0
    /\ exec_ret = [t \in TaskIds |-> "none"]
    /\ exec_none = FALSE
    /\ last_wait = NoCall
    /\ last_term = NoTerm
    /\ term_acted = [t \in TaskIds |-> FALSE]
    /\ observed_flag = [t \in TaskIds |-> FALSE]
    /\ stored = [t \in TaskIds |-> FALSE]
    /\ closed = [t \in TaskIds |-> FALSE]

\* the diagnostic keys of the scenario
Keys == {"k"}

NoStep == [step_id |-> 0, continue |-> FALSE, skipped |-> FALSE, status |-> TRUE]

\* number of inline steps of the scenario
MaxSteps == 3

\* number of steps of an invoked scenario file
MaxNested == 2

\* the step ids of the scenario files: the steps of a file are numbered from 1
StepIds == 1..(IF MaxSteps > MaxNested THEN MaxSteps ELSE MaxNested)

\* test_id of the scenario given to Orchestrator.run, and of the scenario file
\* an invoke_scenario step names
ScenarioIds == {"T", "N"}

\* no inline step has run
NoRun == [scenario_id |-> "", step_id |-> 0, step_type |-> "", executed |-> FALSE,
          raised |-> FALSE, attempts |-> 0, duration_elapsed |-> FALSE,
          evaluated |-> FALSE, order |-> 0, writer |-> 0]

\* no continued step has been revisited
NoFin == [seq |-> 0, result_at |-> 0, finalized |-> FALSE, status |-> TRUE,
          evaluated |-> FALSE, order |-> 0, writer |-> 0]

\* no record of finalize_all_continued_steps for a scenario id
NoRecord == [step_id |-> 0, status |-> ""]

\* Orchestrator.__init__, Context.__init__, ResultCollector.reset and
\* Orchestrator._build_metadata: no key is set, no step is continued, no step
\* has a result, test_id is the id of the scenario
InitRun ==
    /\ run_pc = "steps"
    /\ step_index = 0
    /\ run_status = TRUE
    /\ parameters_to_set = [key \in Keys |-> "unset"]
    /\ continued_steps = <<>>
    /\ fin_index = 1
    /\ last_step = NoStep
    /\ test_id = "T"
    /\ nest_index = 0
    /\ nest_status = TRUE
    /\ nested_steps = <<>>
    /\ nested_len = 0
    /\ step_results = <<>>
    /\ result_index = [id \in StepIds |-> 0]
    /\ results = [id \in ScenarioIds |-> NoRecord]
    /\ started = 0
    /\ registered = 0
    /\ key_writer = [key \in Keys |-> 0]
    /\ fin_pass = 0
    /\ last_run = NoRun
    /\ last_fin = NoFin

\* no function of the library is followed on its own
NoLibCall == [fn |-> ""]
NotReturned == [returned |-> FALSE]

InitLib == call = NoLibCall /\ ret = NotReturned

Init == InitConnection /\ InitRun /\ InitLib

\* self.lock can be taken by a thread working on task t
LockFree(t) == ~lock[t]

\* self.completed_tasks[t] = r, with the history of it
Store(t, r) ==
    /\ completed_tasks' = [completed_tasks EXCEPT ![t] = r]
    /\ stored' = [stored EXCEPT ![t] = TRUE]


(***************************************************************************)
(* execute_command in the background modes.                                *)
(***************************************************************************)
StartOutcomes(k) ==
    IF k = "local" THEN {"started", "popen_failed", "thread_failed"}
                   ELSE {"started", "thread_failed", "not_connected"}

\* the result _execute_background stores when its try block raises
StartFailure == TaskResult(FAILED, -1, "", "start failed")

\* a variant of ExecuteBackground whose except branch stores no result: the id
\* of a task whose Popen failed is then in neither table
ExecuteBackgroundDropsFailure(t, k, outcome) ==
    /\ conn' = [conn EXCEPT ![t] = k]
    /\ CASE outcome = "started" ->
              /\ background_tasks' = background_tasks \cup {t}
              /\ process' = [process EXCEPT ![t] = IF k = "local" THEN "running" ELSE "none"]
              /\ worker' = [worker EXCEPT ![t] = IF k = "local" THEN "communicate" ELSE "exec"]
              /\ UNCHANGED <<completed_tasks, stored>>
         [] outcome = "popen_failed" ->
              UNCHANGED <<background_tasks, process, worker, completed_tasks, stored>>
         [] outcome = "thread_failed" ->
              /\ background_tasks' = background_tasks \cup {t}
              /\ process' = [process EXCEPT ![t] = IF k = "local" THEN "running" ELSE "none"]
              /\ UNCHANGED <<worker, completed_tasks, stored>>

\* _execute_background: Popen (local), BackgroundTask, registration under the
\* lock, thread.start(); the except branch stores a FAILED result.
ExecuteBackground(t, k, outcome) ==
    /\ conn' = [conn EXCEPT ![t] = k]
    /\ CASE outcome = "started" ->
              /\ background_tasks' = background_tasks \cup {t}
              /\ process' = [process EXCEPT ![t] = IF k = "local" THEN "running" ELSE "none"]
              /\ worker' = [worker EXCEPT ![t] = IF k = "local" THEN "communicate" ELSE "exec"]
              /\ UNCHANGED <<completed_tasks, stored>>
         [] outcome = "popen_failed" ->
              /\ Store(t, StartFailure)
              /\ UNCHANGED <<background_tasks, process, worker>>
         [] outcome = "thread_failed" ->
              /\ background_tasks' = background_tasks \cup {t}
              /\ process' = [process EXCEPT ![t] = IF k = "local" THEN "running" ELSE "none"]
              /\ Store(t, StartFailure)
              /\ UNCHANGED worker

\* uuid.uuid4(): every call draws an id no earlier call has drawn
FreshId == 1 + Cardinality({u \in TaskIds : conn[u] # "none"})

\* execute_command(command, mode=BACKGROUND), wait=False.  The SSH transport
\* returns None when it is not connected and cannot connect, before an id is
\* drawn; else _execute_background runs and a RUNNING TaskResult with the
\* task id is returned.
ExecuteCommand(t, k, outcome) ==
    /\ t = FreshId
    /\ outcome \in StartOutcomes(k)
    /\ LockFree(t)
    /\ IF outcome = "not_connected"
       THEN /\ exec_none' = TRUE
            /\ UNCHANGED <<conn, exec_ret, background_tasks, completed_tasks, stored,
                           process, worker>>
       ELSE /\ ExecuteBackground(t, k, outcome)
            /\ exec_ret' = [exec_ret EXCEPT ![t] = RUNNING]
            /\ UNCHANGED exec_none
    /\ UNCHANGED <<terminated, channels, completed, result_queue, lock,
                   returncode, cmd_stdout, stdout_data, exit_code, result>>

\* the driver of the task lifecycle calls execute_command once, between two
\* waits
DriverExecuteCommand(t, k, outcome) ==
    /\ wt_pc = "idle"
    /\ FreshId = 1 /\ ~exec_none
    /\ ExecuteCommand(t, k, outcome)
    /\ UNCHANGED <<run_vars, wait_vars, term_vars,
                   last_wait, last_term, term_acted, observed_flag, closed>>

(***************************************************************************)
(* The command itself: it may print, and it may exit.                      *)
(***************************************************************************)
CmdPrint(t, o) ==
    /\ process[t] = "running"
    /\ cmd_stdout[t] = ""
    /\ o # ""
    /\ cmd_stdout' = [cmd_stdout EXCEPT ![t] = o]
    /\ UNCHANGED <<run_vars, conn_vars, process, returncode, worker_vars, wait_vars, term_vars, hist_vars>>

CmdExit(t, rc) ==
    /\ process[t] = "running"
    /\ process' = [process EXCEPT ![t] = "exited"]
    /\ returncode' = [returncode EXCEPT ![t] = rc]
    /\ UNCHANGED <<run_vars, conn_vars, cmd_stdout, worker_vars, wait_vars, term_vars, hist_vars>>

(***************************************************************************)
(* LocalConnection._background_worker                                      *)
(***************************************************************************)
\* process.communicate() returns once the process has exited; the result is
\* COMPLETED / FAILED by the return code, or FAILED when communicate raises.
LocalWorkerCommunicate(t, raised) ==
    /\ worker[t] = "communicate"
    /\ process[t] = "exited"
    /\ result' = [result EXCEPT ![t] =
            IF raised
            THEN TaskResult(FAILED, -1, "", "error")
            ELSE TaskResult(IF returncode[t] = 0 THEN COMPLETED ELSE FAILED,
                            returncode[t], cmd_stdout[t], "")]
    /\ worker' = [worker EXCEPT ![t] = "publish"]
    /\ UNCHANGED <<run_vars, conn_vars, proc_vars, stdout_data, exit_code, wait_vars, term_vars, hist_vars>>

\* a variant of WorkerPublish that stores the result and leaves the task in
\* background_tasks
WorkerPublishKeepsTask(t) ==
    /\ worker[t] = "publish"
    /\ LockFree(t)
    /\ IF t \in background_tasks
       THEN /\ result_queue' = [result_queue EXCEPT ![t] = Append(@, result[t])]
            /\ completed' = [completed EXCEPT ![t] = TRUE]
            /\ Store(t, result[t])
       ELSE UNCHANGED <<result_queue, completed, completed_tasks, stored>>
    /\ worker' = [worker EXCEPT ![t] = "done"]
    /\ UNCHANGED <<run_vars, conn, background_tasks, terminated, channels, lock, proc_vars,
                   stdout_data, exit_code, result, wait_vars, term_vars,
                   exec_ret, exec_none, last_wait, last_term, term_acted, observed_flag,
                   closed>>

\* "Move task to completed tasks", the same block in both transports:
\* with self.lock: if task_id in self.background_tasks: put, set, del, store.
WorkerPublish(t) ==
    /\ worker[t] = "publish"
    /\ LockFree(t)
    /\ IF t \in background_tasks
       THEN /\ result_queue' = [result_queue EXCEPT ![t] = Append(@, result[t])]
            /\ completed' = [completed EXCEPT ![t] = TRUE]
            /\ background_tasks' = background_tasks \ {t}
            /\ Store(t, result[t])
       ELSE UNCHANGED <<result_queue, completed, background_tasks, completed_tasks, stored>>
    /\ worker' = [worker EXCEPT ![t] = "done"]
    /\ UNCHANGED <<run_vars, conn, terminated, channels, lock, proc_vars, stdout_data, exit_code,
                   result, wait_vars, term_vars,
                   exec_ret, exec_none, last_wait, last_term, term_acted, observed_flag,
                   closed>>

(***************************************************************************)
(* SSHConnection._background_worker                                        *)
(***************************************************************************)
\* exec_command, then the channels are stored in the task under the lock;
\* an exception goes to the outer except branch (a FAILED result).
SSHWorkerExec(t, raised) ==
    /\ worker[t] = "exec"
    /\ IF raised
       THEN /\ result' = [result EXCEPT ![t] = TaskResult(FAILED, -1, "", "error")]
            /\ worker' = [worker EXCEPT ![t] = "publish"]
            /\ UNCHANGED <<process, channels>>
       ELSE /\ LockFree(t)
            /\ process' = [process EXCEPT ![t] = "running"]
            /\ channels' = [channels EXCEPT ![t] = (t \in background_tasks)]
            /\ worker' = [worker EXCEPT ![t] = "loop"]
            /\ UNCHANGED result
    /\ UNCHANGED <<run_vars, conn, background_tasks, completed_tasks, terminated, completed,
                   result_queue, lock, returncode, cmd_stdout, stdout_data, exit_code,
                   wait_vars, term_vars, hist_vars>>

\* top of the while loop: "Check if task was terminated", under the lock
SSHWorkerLoop(t) ==
    /\ worker[t] = "loop"
    /\ LockFree(t)
    /\ worker' = [worker EXCEPT ![t] =
            IF t \in background_tasks /\ terminated[t] THEN "exitcode" ELSE "read"]
    /\ UNCHANGED <<run_vars, conn_vars, proc_vars, stdout_data, exit_code, result, wait_vars,
                   term_vars, hist_vars>>

\* body of the while loop: read what is available, leave the loop when the
\* exit status is ready (the command exited or the channel was closed) or on
\* an error that is not a timeout, else sleep and loop.
SSHWorkerRead(t, error) ==
    /\ worker[t] = "read"
    /\ IF error
       THEN /\ worker' = [worker EXCEPT ![t] = "exitcode"]
            /\ UNCHANGED stdout_data
       ELSE /\ stdout_data' = [stdout_data EXCEPT ![t] = cmd_stdout[t]]
            /\ worker' = [worker EXCEPT ![t] =
                    IF process[t] \in {"exited", "closed"} THEN "exitcode" ELSE "loop"]
    /\ UNCHANGED <<run_vars, conn_vars, proc_vars, exit_code, result, wait_vars, term_vars, hist_vars>>

\* what recv_exit_status returns once the status event is set
ExitStatus(t) == IF process[t] = "exited" THEN returncode[t] ELSE -1

\* "Get exit code": with self.lock: if the task is registered and not
\* terminated: exit_code = stdout.channel.recv_exit_status().  The call blocks,
\* with the lock held, until the command exits or the channel is closed.
SSHWorkerExitCode(t) ==
    /\ worker[t] = "exitcode"
    /\ LockFree(t)
    /\ IF t \in background_tasks /\ ~terminated[t]
       THEN IF process[t] = "running"
            THEN /\ lock' = [lock EXCEPT ![t] = TRUE]
                 /\ worker' = [worker EXCEPT ![t] = "blocked"]
                 /\ UNCHANGED exit_code
            ELSE /\ exit_code' = [exit_code EXCEPT ![t] = ExitStatus(t)]
                 /\ worker' = [worker EXCEPT ![t] = "status"]
                 /\ UNCHANGED lock
       ELSE /\ worker' = [worker EXCEPT ![t] = "status"]
            /\ UNCHANGED <<exit_code, lock>>
    /\ UNCHANGED <<run_vars, conn, background_tasks, completed_tasks, terminated, channels,
                   completed, result_queue, proc_vars, stdout_data, result, wait_vars,
                   term_vars, hist_vars>>

\* recv_exit_status returns: the lock is released
SSHWorkerUnblock(t) ==
    /\ worker[t] = "blocked"
    /\ process[t] # "running"
    /\ exit_code' = [exit_code EXCEPT ![t] = ExitStatus(t)]
    /\ lock' = [lock EXCEPT ![t] = FALSE]
    /\ worker' = [worker EXCEPT ![t] = "status"]
    /\ UNCHANGED <<run_vars, conn, background_tasks, completed_tasks, terminated, channels,
                   completed, result_queue, proc_vars, stdout_data, result, wait_vars,
                   term_vars, hist_vars>>

\* "Determine final status": is_terminated is read under the lock, the result
\* is TERMINATED when it is set, else COMPLETED / FAILED by the exit code.
SSHWorkerStatus(t) ==
    /\ worker[t] = "status"
    /\ LockFree(t)
    /\ LET is_terminated == t \in background_tasks /\ terminated[t]
       IN /\ result' = [result EXCEPT ![t] =
                 TaskResult(IF is_terminated THEN TERMINATED
                            ELSE IF exit_code[t] = 0 THEN COMPLETED ELSE FAILED,
                            exit_code[t], stdout_data[t], "")]
          /\ observed_flag' = [observed_flag EXCEPT ![t] = is_terminated]
    /\ worker' = [worker EXCEPT ![t] = "publish"]
    /\ UNCHANGED <<run_vars, conn_vars, proc_vars, stdout_data, exit_code, wait_vars, term_vars, exec_ret, exec_none, last_wait, last_term, term_acted,
                   stored, closed>>

(***************************************************************************)
(* wait_for_task(task_id, timeout)                                         *)
(***************************************************************************)
\* a thread enters wait_for_task(t, timeout)
StartWait(t, timeout) ==
    /\ wt_pc = "idle"
    /\ wt_pc' = "enter"
    /\ wt_task' = t
    /\ wt_timeout' = timeout
    /\ wt_expired' = FALSE

\* the driver of the task lifecycle calls wait_for_task
CallWait(t, timeout) ==
    /\ StartWait(t, timeout)
    /\ UNCHANGED <<run_vars, conn_vars, proc_vars, worker_vars, term_vars, hist_vars>>

\* wait_for_task returns r to its caller
WaitReturn(r) ==
    /\ wt_pc' = "idle"
    /\ last_wait' = [task |-> wt_task, ret |-> r, expired |-> wt_expired,
                     finite |-> (wt_timeout = "finite")]
    /\ wt_task' = 0 /\ wt_timeout' = "none" /\ wt_expired' = FALSE

\* with self.lock: a stored result is returned, an unknown id gives None,
\* else the BackgroundTask is taken for the wait
WaitEnter ==
    /\ wt_pc = "enter"
    /\ LockFree(wt_task)
    /\ IF completed_tasks[wt_task] # None
       THEN WaitReturn(completed_tasks[wt_task])
       ELSE IF wt_task \notin background_tasks
            THEN WaitReturn(None)
            ELSE /\ wt_pc' = "wait"
                 /\ UNCHANGED <<wt_task, wt_timeout, wt_expired, last_wait>>
    /\ UNCHANGED <<run_vars, conn_vars, proc_vars, worker_vars, term_vars,
                   exec_ret, exec_none, last_term, term_acted, observed_flag, stored, closed>>

\* background_task.completed.wait(timeout) returns True
WaitCompleted ==
    /\ wt_pc = "wait"
    /\ completed[wt_task]
    /\ wt_pc' = "completed_get"
    /\ UNCHANGED <<run_vars, conn_vars, proc_vars, worker_vars, wt_task, wt_timeout, wt_expired,
                   term_vars, hist_vars>>

\* background_task.completed.wait(timeout) returns False: the deadline elapsed
\* and the worker has not set the event.  LocalConnection goes on to collect a
\* result, SSHConnection first calls terminate_task.
WaitExpire ==
    /\ wt_pc = "wait"
    /\ wt_timeout = "finite"
    /\ ~completed[wt_task]
    /\ wt_expired' = TRUE
    /\ wt_pc' = IF conn[wt_task] = "ssh" THEN "terminate" ELSE "expired_get"
    /\ UNCHANGED <<run_vars, conn_vars, proc_vars, worker_vars, wt_task, wt_timeout,
                   term_vars, hist_vars>>

\* background_task.result_queue.get_nowait(), on both paths
WaitGet ==
    /\ wt_pc \in {"completed_get", "expired_get"}
    /\ IF result_queue[wt_task] # <<>>
       THEN /\ result_queue' = [result_queue EXCEPT ![wt_task] = Tail(@)]
            /\ WaitReturn(Head(result_queue[wt_task]))
       ELSE /\ wt_pc' = IF wt_pc = "completed_get" THEN "completed_empty" ELSE "expired_empty"
            /\ UNCHANGED <<result_queue, wt_task, wt_timeout, wt_expired,
                           last_wait>>
    /\ UNCHANGED <<run_vars, conn, background_tasks, completed_tasks, terminated, channels,
                   completed, lock, proc_vars, worker_vars, term_vars,
                   exec_ret, exec_none, last_term, term_acted, observed_flag, stored, closed>>

\* the result wait_for_task makes up when the deadline elapsed
TimeoutResult == TaskResult(TIMEOUT, -1, "", "timed out")

\* except queue.Empty.  After the event was set:
\*   with self.lock: return self.completed_tasks.get(actual_task_id)
\* after the deadline: with self.lock: a stored result is returned, else a
\* TIMEOUT result is created, stored and returned; the task stays in
\* background_tasks.
WaitEmpty ==
    /\ wt_pc \in {"completed_empty", "expired_empty"}
    /\ LockFree(wt_task)
    /\ IF completed_tasks[wt_task] # None \/ wt_pc = "completed_empty"
       THEN /\ WaitReturn(completed_tasks[wt_task])
            /\ UNCHANGED <<completed_tasks, stored>>
       ELSE /\ Store(wt_task, TimeoutResult)
            /\ WaitReturn(TimeoutResult)
    /\ UNCHANGED <<run_vars, conn, background_tasks, terminated, channels, completed, result_queue,
                   lock, proc_vars, worker_vars, term_vars,
                   exec_ret, exec_none, last_term, term_acted, observed_flag, closed>>

(***************************************************************************)
(* terminate_task(task_id)                                                 *)
(***************************************************************************)
\* SSHConnection.terminate_task, under the lock: background_task.terminated = True
SSHMarkTerminated(t) ==
    terminated' = [terminated EXCEPT ![t] = TRUE]

\* SSHConnection.terminate_task, outside the lock: when the channels are known
\* and the channel is open, Ctrl+C is sent and the channel is closed; a failure
\* of that is logged and swallowed.
SSHSignal(t, failed) ==
    process' = [process EXCEPT ![t] =
                    IF channels[t] /\ ~failed /\ process[t] = "running" THEN "closed" ELSE @]

\* SSHConnection.wait_for_task after the deadline: self.terminate_task(id),
\* its first block
WaitTerminateEnter ==
    /\ wt_pc = "terminate"
    /\ LockFree(wt_task)
    /\ IF wt_task \in background_tasks
       THEN /\ SSHMarkTerminated(wt_task)
            /\ wt_pc' = "signal"
       ELSE /\ wt_pc' = "grace"
            /\ UNCHANGED terminated
    /\ UNCHANGED <<run_vars, conn, background_tasks, completed_tasks, channels, completed,
                   result_queue, lock, proc_vars, worker_vars, wt_task, wt_timeout,
                   wt_expired, term_vars, hist_vars>>

\* ... and its second block
WaitTerminateSignal(failed) ==
    /\ wt_pc = "signal"
    /\ SSHSignal(wt_task, failed)
    /\ term_acted' = [term_acted EXCEPT ![wt_task] = TRUE]
    /\ wt_pc' = "grace"
    /\ UNCHANGED <<run_vars, conn_vars, returncode, cmd_stdout, worker_vars, wt_task, wt_timeout,
                   wt_expired, term_vars,
                   exec_ret, exec_none, last_wait, last_term, observed_flag, stored, closed>>

\* background_task.completed.wait(timeout=2.0): returns when the event is set
\* or after two seconds, and the result is collected either way
WaitGrace ==
    /\ wt_pc = "grace"
    /\ wt_pc' = "expired_get"
    /\ UNCHANGED <<run_vars, conn_vars, proc_vars, worker_vars, wt_task, wt_timeout, wt_expired,
                   term_vars, hist_vars>>

CallTerminate(t) ==
    /\ tm_pc = "idle"
    /\ tm_pc' = "enter"
    /\ tm_task' = t
    /\ UNCHANGED <<run_vars, conn_vars, proc_vars, worker_vars, wait_vars,
                   hist_vars>>

\* terminate_task returns b
TermReturn(b) ==
    /\ tm_pc' = "idle"
    /\ last_term' = [task |-> tm_task, ret |-> b, found |-> (tm_pc # "enter")]
    /\ tm_task' = 0

\* with self.lock: an id that is not in background_tasks returns False;
\* else the task is taken (and, on SSH, marked terminated)
TermEnter ==
    /\ tm_pc = "enter"
    /\ LockFree(tm_task)
    /\ IF tm_task \notin background_tasks
       THEN /\ TermReturn(FALSE)
            /\ UNCHANGED terminated
       ELSE /\ IF conn[tm_task] = "ssh"
               THEN /\ SSHMarkTerminated(tm_task)
                    /\ tm_pc' = "signal"
               ELSE /\ tm_pc' = "kill"
                    /\ UNCHANGED terminated
            /\ UNCHANGED <<tm_task, last_term>>
    /\ UNCHANGED <<run_vars, conn, background_tasks, completed_tasks, channels, completed,
                   result_queue, lock, proc_vars, worker_vars, wait_vars,
                   exec_ret, exec_none, last_wait, term_acted, observed_flag, stored, closed>>

\* SSHConnection.terminate_task, second block: returns True
TermSignal(failed) ==
    /\ tm_pc = "signal"
    /\ SSHSignal(tm_task, failed)
    /\ term_acted' = [term_acted EXCEPT ![tm_task] = TRUE]
    /\ TermReturn(TRUE)
    /\ UNCHANGED <<run_vars, conn_vars, returncode, cmd_stdout, worker_vars, wait_vars,
                   exec_ret, exec_none, last_wait, observed_flag, stored, closed>>

\* LocalConnection.terminate_task: process.terminate(), sleep, poll, kill.
\* A running process dies of the signal; the attempt may raise instead.
TermKill(raised) ==
    /\ tm_pc = "kill"
    /\ IF raised
       THEN /\ tm_pc' = "store_failed"
            /\ UNCHANGED <<process, returncode>>
       ELSE /\ tm_pc' = "store"
            /\ IF process[tm_task] = "running"
               THEN /\ process' = [process EXCEPT ![tm_task] = "exited"]
                    /\ returncode' = [returncode EXCEPT ![tm_task] = -15]
               ELSE UNCHANGED <<process, returncode>>
    /\ UNCHANGED <<run_vars, conn_vars, cmd_stdout, worker_vars, wait_vars, tm_task, hist_vars>>

\* the result LocalConnection.terminate_task creates
TerminatedResult(failed) ==
    TaskResult(TERMINATED, -1, "",
               IF failed THEN "termination failed" ELSE "terminated")

\* a variant of TermStore that stores the TERMINATED result only when the task
\* is still in background_tasks
TermStoreIfRegistered ==
    /\ tm_pc \in {"store", "store_failed"}
    /\ IF tm_task \in background_tasks
       THEN /\ background_tasks' = background_tasks \ {tm_task}
            /\ Store(tm_task, TerminatedResult(tm_pc = "store_failed"))
       ELSE UNCHANGED <<background_tasks, completed_tasks, stored>>
    /\ term_acted' = [term_acted EXCEPT ![tm_task] = TRUE]
    /\ TermReturn(tm_pc = "store")
    /\ UNCHANGED <<run_vars, conn, terminated, channels, completed, result_queue, lock,
                   proc_vars, worker_vars, wait_vars,
                   exec_ret, exec_none, last_wait, observed_flag, closed>>

\* LocalConnection.terminate_task, last block of the try and of the except
\* branch: with self.lock: the id is deleted from background_tasks when it is
\* still there and the TERMINATED result is stored; True / False is returned.
TermStore ==
    /\ tm_pc \in {"store", "store_failed"}
    /\ background_tasks' = background_tasks \ {tm_task}
    /\ Store(tm_task, TerminatedResult(tm_pc = "store_failed"))
    /\ term_acted' = [term_acted EXCEPT ![tm_task] = TRUE]
    /\ TermReturn(tm_pc = "store")
    /\ UNCHANGED <<run_vars, conn, terminated, channels, completed, result_queue, lock, proc_vars,
                   worker_vars, wait_vars,
                   exec_ret, exec_none, last_wait, observed_flag, closed>>

(***************************************************************************)
(* close_task, close_all_completed_tasks                                   *)
(***************************************************************************)
CloseTask(t) ==
    /\ LockFree(t)
    /\ completed_tasks[t] # None
    /\ completed_tasks' = [completed_tasks EXCEPT ![t] = None]
    /\ closed' = [closed EXCEPT ![t] = TRUE]
    /\ UNCHANGED <<run_vars, conn, background_tasks, terminated, channels, completed, result_queue,
                   lock, proc_vars, worker_vars, wait_vars, term_vars,
                   exec_ret, exec_none, last_wait, last_term, term_acted, observed_flag,
                   stored>>

\* close_all_completed_tasks on the connection of task c: every result the
\* connection holds is removed
CloseAllCompletedTasks(c) ==
    /\ LockFree(c)
    /\ completed_tasks[c] # None
    /\ completed_tasks' = [completed_tasks EXCEPT ![c] = None]
    /\ closed' = [closed EXCEPT ![c] = TRUE]
    /\ UNCHANGED <<run_vars, conn, background_tasks, terminated, channels, completed, result_queue,
                   lock, proc_vars, worker_vars, wait_vars, term_vars,
                   exec_ret, exec_none, last_wait, last_term, term_acted, observed_flag,
                   stored>>

(***************************************************************************)
(* The task lifecycle: a driver that starts background tasks and waits for *)
(* them, a thread that terminates tasks, a thread that closes results, the *)
(* workers and the commands.                                               *)
(***************************************************************************)
Timeouts == {"finite", "none"}

Worker ==
    \E t \in TaskIds :
        \/ \E raised \in BOOLEAN : LocalWorkerCommunicate(t, raised)
        \/ \E raised \in BOOLEAN : SSHWorkerExec(t, raised)
        \/ SSHWorkerLoop(t)
        \/ \E error \in BOOLEAN : SSHWorkerRead(t, error)
        \/ SSHWorkerExitCode(t)
        \/ SSHWorkerUnblock(t)
        \/ SSHWorkerStatus(t)
        \/ WorkerPublish(t)

Waiter ==
    \/ WaitEnter
    \/ WaitCompleted
    \/ WaitExpire
    \/ WaitGet
    \/ WaitEmpty
    \/ WaitTerminateEnter
    \/ \E failed \in BOOLEAN : WaitTerminateSignal(failed)
    \/ WaitGrace

Terminator ==
    \/ TermEnter
    \/ \E failed \in BOOLEAN : TermSignal(failed)
    \/ \E raised \in BOOLEAN : TermKill(raised)
    \/ TermStore

Command ==
    \E t \in TaskIds :
        \/ \E o \in Outputs : CmdPrint(t, o)
        \/ \E rc \in ExitCodes : CmdExit(t, rc)

\* the ids the callers of Spec name: the id execute_command returned, and
\* before that an id no task has
CallIds == {1}

Calls ==
    \/ \E t \in CallIds, k \in Transports,
          outcome \in {"started", "popen_failed", "thread_failed", "not_connected"} :
            DriverExecuteCommand(t, k, outcome)
    \/ \E t \in CallIds, timeout \in Timeouts : CallWait(t, timeout)
    \/ \E t \in CallIds : CallTerminate(t)
    \/ \E t \in CallIds : CloseTask(t)
    \/ \E c \in CallIds : CloseAllCompletedTasks(c)

Next == Calls \/ Worker \/ Waiter \/ Terminator \/ Command

Spec == Init /\ [][Next]_vars

\* the threads are scheduled; nothing makes a command exit or a caller call
FairSpec == Spec /\ WF_vars(Worker) /\ WF_vars(Waiter) /\ WF_vars(Terminator)

(***************************************************************************)
(* The scenario run: Orchestrator._run_steps, StepExecutor.run,            *)
(* CommandExecutor.execute / run_continue_step / validate_continued_step   *)
(* and Orchestrator.finalize_all_continued_steps, for a scenario of        *)
(* command steps.  The coordinator is one thread; the workers and commands *)
(* of the background tasks it has started run beside it.                   *)
(***************************************************************************)
\* entry_criteria of a step: none, or one expression over the key k
EntryCriteria == {"", "k", "not k"}

\* regex of the output_analysis rule of a step (the rule sets key k), "" for no
\* rule; expected_output of a step is drawn from Outputs, "" for none
Regexes == {"", "out", "err"}

\* the command steps a scenario can declare at position id
StepDetails(id) ==
    [step_id : {id}, continue : BOOLEAN, entry_criteria : EntryCriteria,
     output_analysis : Regexes, expected_output : Outputs,
     connection_type : Transports]

\* ExpressionEvaluator.evaluate for one criterion: eval(expression, {},
\* diagnostic_keys); a key that is not set raises NameError, which gives False
evaluate(entry_criteria, diagnostic_keys) ==
    CASE entry_criteria = "k" -> diagnostic_keys["k"] = "true"
      [] entry_criteria = "not k" -> diagnostic_keys["k"] = "false"
      [] OTHER -> FALSE

\* a StepExecutor.run that takes the entry criteria of every step for met
CriteriaTakenForMet(step) == FALSE

\* StepExecutor.run, first block: the step is skipped when it has entry
\* criteria and they do not hold on context.get_parameters_to_set()
EntryCriteriaNotMet(step) ==
    step.entry_criteria # "" /\ ~evaluate(step.entry_criteria, parameters_to_set)

\* re.search(pattern, output) finds a match
search(pattern, output) == pattern # "" /\ pattern = output

\* CommandExecutor.output_analysis -> OutputAnalysis.analyze: every rule sets
\* its key to whether its regex matches (Context.update_diagnostic_context)
output_analysis(output, rule) ==
    parameters_to_set' =
        IF rule = "" THEN parameters_to_set
        ELSE [parameters_to_set EXCEPT !["k"] =
                 IF search(rule, output) THEN "true" ELSE "false"]

\* the status CommandExecutor.output_validation returns
output_validation(output, expected_output) == search(expected_output, output)

\* Context.add_continued_step: self.continued_steps[scenario_id][step_id] = step_info.
\* continued_steps is the nested dict in the order finalize_all_continued_steps
\* iterates it: the scenarios in the order of their first registration, the
\* steps of a scenario in the order of their first registration.  An entry
\* that exists is replaced where it is.
add_continued_step(scenario_id, step_id, step_info) ==
    LET n == Len(continued_steps)
        same(i) == /\ continued_steps[i].scenario_id = scenario_id
                   /\ continued_steps[i].step_id = step_id
        group == {i \in 1..n : continued_steps[i].scenario_id = scenario_id}
        last == CHOOSE i \in group : \A j \in group : j <= i
    IN IF \E i \in 1..n : same(i)
       THEN [i \in 1..n |-> IF same(i) THEN step_info ELSE continued_steps[i]]
       ELSE IF group = {}
            THEN Append(continued_steps, step_info)
            ELSE SubSeq(continued_steps, 1, last) \o <<step_info>>
                    \o SubSeq(continued_steps, last + 1, n)

\* what an inline step leaves alone when it starts no background task
NoTaskStarted ==
    UNCHANGED <<conn_vars, proc_vars, worker_vars, wait_vars, term_vars, hist_vars, lib_vars>>

\* CommandExecutor.run_continue_step: the connection is created and connected;
\* when connect() fails a failure tuple is returned and nothing is registered;
\* else execute_command(mode=BACKGROUND) and Context.add_continued_step.  The
\* value is the status CommandExecutor.execute returns: it ignores what
\* run_continue_step returned and reports the step as started; an exception in
\* run_continue_step (task_result is None) is caught and fails the step.
run_continue_step(step, connected, outcome) ==
    IF step.connection_type = "ssh" /\ ~connected
    THEN /\ NoTaskStarted
         /\ UNCHANGED continued_steps
    ELSE /\ FreshId \in TaskIds
         /\ ExecuteCommand(FreshId, step.connection_type, outcome)
         /\ continued_steps' =
               IF outcome = "not_connected" THEN continued_steps
               ELSE add_continued_step(test_id, step.step_id,
                        [scenario_id |-> test_id, step_id |-> step.step_id,
                         step |-> step, task_id |-> FreshId, validated |-> FALSE])
         /\ UNCHANGED <<wait_vars, term_vars, lib_vars, last_wait, last_term, term_acted,
                        observed_flag, closed>>

\* a variant of StepReturn that leaves the loop on a failed step only when the
\* step has no continue flag
StepReturnUnlessContinue(step, skipped, status) ==
    /\ last_step' = [step_id |-> step.step_id, continue |-> step.continue,
                     skipped |-> skipped, status |-> status]
    /\ step_index' = step_index + 1
    /\ run_status' = status
    /\ run_pc' = IF status \/ step.continue THEN "steps" ELSE "finalize"

\* a variant of StepReturn whose loop passes over the step that follows
StepReturnSkipsNext(step, skipped, status) ==
    /\ last_step' = [step_id |-> step.step_id, continue |-> step.continue,
                     skipped |-> skipped, status |-> status]
    /\ step_index' = IF step_index + 2 < MaxSteps THEN step_index + 2 ELSE MaxSteps
    /\ run_status' = status
    /\ run_pc' = IF status THEN "steps" ELSE "finalize"

\* Orchestrator._run_steps after StepExecutor.run has returned status: a
\* failed step sets run_status = False and leaves the loop
StepReturn(step, skipped, status) ==
    /\ last_step' = [step_id |-> step.step_id, continue |-> step.continue,
                     skipped |-> skipped, status |-> status]
    /\ step_index' = step_index + 1
    /\ run_status' = status
    /\ run_pc' = IF status THEN "steps" ELSE "finalize"

\* one iteration of the loop of _run_steps: StepExecutor.run on the next step.
\* connected: connect() succeeds; outcome: how the background task starts;
\* output: stdout of the command of a synchronous step.
RunStep(step, connected, outcome, output) ==
    /\ run_pc = "steps"
    /\ step_index < MaxSteps
    /\ step \in StepDetails(step_index + 1)
    /\ step.connection_type = "local" => connected
    /\ IF EntryCriteriaNotMet(step)
       THEN /\ connected /\ outcome = "started" /\ output = ""
            /\ StepReturn(step, TRUE, TRUE)
            /\ NoTaskStarted
            /\ UNCHANGED <<parameters_to_set, continued_steps>>
       ELSE IF step.continue
            THEN /\ output = ""
                 /\ ~connected => outcome = "started"
                 /\ run_continue_step(step, connected, outcome)
                 /\ StepReturn(step, FALSE, ~connected \/ outcome # "not_connected")
                 /\ UNCHANGED parameters_to_set
            ELSE /\ outcome = "started"
                 /\ ~connected => output = ""
                 /\ IF connected /\ output # ""
                    THEN /\ output_analysis(output, step.output_analysis)
                         /\ StepReturn(step, FALSE,
                                \/ step.expected_output = ""
                                \/ output_validation(output, step.expected_output))
                    ELSE /\ StepReturn(step, FALSE, FALSE)
                         /\ UNCHANGED parameters_to_set
                 /\ NoTaskStarted
                 /\ UNCHANGED continued_steps
    /\ UNCHANGED <<fin_index, scen_vars>>

\* the for loop of _run_steps has run every step of the scenario
EndSteps ==
    /\ run_pc = "steps"
    /\ step_index >= 1
    /\ run_pc' = "finalize"
    /\ UNCHANGED <<conn_vars, proc_vars, worker_vars, wait_vars, term_vars, hist_vars, lib_vars,
                   step_index, run_status, parameters_to_set, continued_steps,
                   fin_index, last_step, scen_vars>>

\* one iteration of the loop of finalize_all_continued_steps: a validated
\* step is passed over; else StepExecutor.run(validate_continue=True), which
\* evaluates the entry criteria of the step again and, when they hold, goes to
\* CommandExecutor.validate_continued_step: the step is marked validated and
\* wait_for_task_with_details(task_id, timeout=duration or 30) is entered.
FinalizeStep ==
    /\ run_pc = "finalize"
    /\ fin_index <= Len(continued_steps)
    /\ LET info == continued_steps[fin_index]
       IN IF info.validated \/ EntryCriteriaNotMet(info.step)
          THEN /\ fin_index' = fin_index + 1
               /\ UNCHANGED <<run_pc, continued_steps, wait_vars>>
          ELSE /\ continued_steps' = [continued_steps EXCEPT ![fin_index].validated = TRUE]
               /\ StartWait(info.task_id, "finite")
               /\ run_pc' = "validate"
               /\ UNCHANGED fin_index
    /\ UNCHANGED <<conn_vars, proc_vars, worker_vars, term_vars, hist_vars, lib_vars,
                   step_index, run_status, parameters_to_set, last_step, scen_vars>>

\* validate_continued_step after wait_for_task_with_details has returned:
\* output analysis and output validation of the stdout of the result
ValidateContinuedStep ==
    /\ run_pc = "validate"
    /\ wt_pc = "idle"
    /\ output_analysis(last_wait.ret.stdout, continued_steps[fin_index].step.output_analysis)
    /\ fin_index' = fin_index + 1
    /\ run_pc' = "finalize"
    /\ UNCHANGED <<conn_vars, proc_vars, worker_vars, wait_vars, term_vars, hist_vars, lib_vars,
                   step_index, run_status, continued_steps, last_step, scen_vars>>

\* finalize_all_continued_steps has passed every entry and _run_steps returns
FinalizeReturn ==
    /\ run_pc = "finalize"
    /\ fin_index > Len(continued_steps)
    /\ run_pc' = "returned"
    /\ UNCHANGED <<conn_vars, proc_vars, worker_vars, wait_vars, term_vars, hist_vars, lib_vars,
                   step_index, run_status, parameters_to_set, continued_steps,
                   fin_index, last_step, scen_vars>>

\* the next step of the scenario, with what its environment does
InlineStep ==
    /\ run_pc = "steps"
    /\ step_index < MaxSteps
    /\ \E step \in StepDetails(step_index + 1), connected \in BOOLEAN, output \in Outputs,
          outcome \in {"started", "popen_failed", "thread_failed", "not_connected"} :
            RunStep(step, connected, outcome, output)

Coordinator ==
    \/ InlineStep
    \/ EndSteps
    \/ FinalizeStep
    \/ ValidateContinuedStep
    \/ FinalizeReturn

RunNext == Coordinator \/ Worker \/ Waiter \/ Command

RunSpec == Init /\ [][RunNext]_vars

(***************************************************************************)
(* The scenario run with its step results: Orchestrator._run_steps,        *)
(* ScenarioRunner.run for the scenario an invoke_scenario step names,      *)
(* StepExecutor.run with its retry loop, ExecutorFactory, ResultCollector   *)
(* and finalize_all_continued_steps.  The coordinator is followed alone:   *)
(* what wait_for_task_with_details answers for the task of a continued     *)
(* step is an input of the finalization.                                   *)
(***************************************************************************)
\* largest `loop` of a step
MaxLoop == 2

\* number of times finalize_all_continued_steps is called again after _run_steps
MaxAgain == 1

\* command_execution steps, synchronous or continued (the rule of a continued
\* step is applied to an output that may be empty, so one regex gives both values)
CommandSteps(id) ==
    {step \in [step_id : {id}, step_type : {"command_execution"}, continue : BOOLEAN,
               entry_criteria : {"", "k"}, output_analysis : Regexes,
               expected_output : Outputs, loop : {1}, duration : {FALSE},
               scenario_path : {FALSE}] :
        step.continue => step.output_analysis # "err"}

\* invoke_scenario steps that name a scenario file
InvokeSteps(id) ==
    [step_id : {id}, step_type : {"invoke_scenario"}, continue : {FALSE},
     entry_criteria : {""}, output_analysis : {""}, expected_output : {""},
     loop : {1}, duration : {FALSE}, scenario_path : {TRUE}]

\* steps whose every execution attempt raises: a step_type ExecutorFactory does
\* not know ("bogus"), an invoke_scenario step without scenario_path
RaisingSteps(id) ==
    [step_id : {id}, step_type : {"bogus", "invoke_scenario"}, continue : {FALSE},
     entry_criteria : {""}, output_analysis : {""}, expected_output : {""},
     loop : 1..MaxLoop, duration : BOOLEAN, scenario_path : {FALSE}]

\* the steps the scenario given to Orchestrator.run can declare at position id
ScenarioSteps(id) == CommandSteps(id) \cup InvokeSteps(id) \cup RaisingSteps(id)

\* the steps the invoked scenario file can declare at position id: command
\* steps, synchronous or continued, with or without entry criteria
NestedSteps(id) ==
    {step \in CommandSteps(id) : step.output_analysis = "" /\ step.expected_output = ""}

\* ExecutorFactory.get_executor raises ValueError for an unknown step type;
\* ScenarioInvoker.execute raises ValueError without scenario_path
ExecuteRaises(step) ==
    \/ step.step_type \notin {"command_execution", "invoke_scenario"}
    \/ step.step_type = "invoke_scenario" /\ ~step.scenario_path

\* the while loop of StepExecutor.run for a step whose every attempt raises:
\* the except branch returns (None, False, ...) when the step has a duration
\* and finds it elapsed (in attempt elapsed_at), else it sleeps and counts the
\* attempt; after the loop the initial (output, status, message) is returned
RECURSIVE RetryLoop(_, _, _, _)
RetryLoop(attempts, loop, duration, elapsed_at) ==
    IF attempts < loop
    THEN IF duration /\ elapsed_at = attempts + 1
         THEN [status |-> FALSE, attempts |-> attempts + 1, duration_elapsed |-> TRUE]
         ELSE RetryLoop(attempts + 1, loop, duration, elapsed_at)
    ELSE [status |-> TRUE, attempts |-> attempts, duration_elapsed |-> FALSE]

\* how a continued command can start: a task is started and registered;
\* connect() fails; execute_command returns None
Starts == {"registered", "no_connection", "no_result"}

\* StepExecutor.run(validate_continue=False) for a step that invokes no
\* scenario: what it does and returns.
\*   skipped    the entry criteria are not met
\*   executed   an executor was built and its execute() was called
\*   raised     every attempt raised
\*   status     the status StepExecutor.run returns
\*   result     the status of the step result it adds, "" for none
\*   registers  Context.add_continued_step is called
\*   analysed   the output analysis rule of the step is applied
StepOutcome(step, connected, start, output, elapsed_at) ==
    LET none == [skipped |-> FALSE, executed |-> FALSE, raised |-> FALSE, attempts |-> 0,
                 duration_elapsed |-> FALSE, status |-> TRUE, result |-> "",
                 registers |-> FALSE, analysed |-> FALSE]
        ran(status) == [none EXCEPT !.executed = TRUE, !.attempts = 1, !.status = status,
                                    !.result = IF status THEN "success" ELSE "fail"]
    IN IF EntryCriteriaNotMet(step)
       THEN [none EXCEPT !.skipped = TRUE, !.result = "skip"]
       ELSE IF ExecuteRaises(step)
       THEN LET r == RetryLoop(0, step.loop, step.duration, elapsed_at)
            IN [none EXCEPT !.raised = TRUE, !.attempts = r.attempts, !.status = r.status,
                            !.duration_elapsed = r.duration_elapsed]
       ELSE IF step.continue
       THEN CASE start = "registered" -> [ran(TRUE) EXCEPT !.registers = TRUE]
              [] start = "no_connection" -> ran(TRUE)
              [] start = "no_result" -> ran(FALSE)
       ELSE IF connected /\ output # ""
            THEN [ran(step.expected_output = ""
                        \/ output_validation(output, step.expected_output))
                     EXCEPT !.analysed = (step.output_analysis # "")]
            ELSE ran(FALSE)

\* the inputs of StepOutcome that the step reads
StepInputs(step, connected, start, output, elapsed_at) ==
    /\ (EntryCriteriaNotMet(step) \/ ExecuteRaises(step) \/ step.continue)
          => (connected /\ output = "")
    /\ (EntryCriteriaNotMet(step) \/ ExecuteRaises(step) \/ ~step.continue)
          => start = "registered"
    /\ ~connected => output = ""
    /\ (EntryCriteriaNotMet(step) \/ ~ExecuteRaises(step) \/ ~step.duration)
          => elapsed_at = 0
    /\ elapsed_at <= step.loop

\* ResultCollector.add_step_result: the result is appended, and step_index
\* (here result_index) of the step id is its index
add_step_result(scenario_id, step_id, status) ==
    /\ step_results' = Append(step_results,
            [scenario_id |-> scenario_id, step_id |-> step_id, status |-> status])
    /\ result_index' = [result_index EXCEPT ![step_id] = Len(step_results) + 1]

\* ResultCollector.update_step_result: the result step_index names for the
\* step id is updated (every continued step has one)
update_step_result(step_id, status) ==
    step_results' = [step_results EXCEPT ![result_index[step_id]].status = status]

\* StepExecutor(scenario_id, ...).run() on an inline step that invokes no
\* scenario, with everything it changes in the Context and the ResultCollector
RunInline(scenario_id, step, o, output) ==
    /\ started' = started + 1
    /\ IF o.result # ""
       THEN add_step_result(scenario_id, step.step_id, o.result)
       ELSE UNCHANGED <<step_results, result_index>>
    /\ IF o.registers
       THEN /\ continued_steps' = add_continued_step(test_id, step.step_id,
                   [scenario_id |-> test_id, step_id |-> step.step_id, step |-> step,
                    task_id |-> registered + 1, validated |-> FALSE,
                    \* history of the entry
                    seq |-> registered + 1, order |-> started + 1,
                    result_at |-> Len(step_results) + 1, outcome |-> "", pass |-> 0])
            /\ registered' = registered + 1
       ELSE UNCHANGED <<continued_steps, registered>>
    /\ IF o.analysed
       THEN /\ output_analysis(output, step.output_analysis)
            /\ key_writer' = [key_writer EXCEPT !["k"] = started + 1]
       ELSE UNCHANGED <<parameters_to_set, key_writer>>
    /\ last_run' = [scenario_id |-> scenario_id, step_id |-> step.step_id,
                    step_type |-> step.step_type,
                    executed |-> o.executed, raised |-> o.raised, attempts |-> o.attempts,
                    duration_elapsed |-> o.duration_elapsed,
                    evaluated |-> (step.entry_criteria # ""),
                    order |-> started + 1, writer |-> key_writer["k"]]


\* one iteration of the loop of Orchestrator._run_steps on a step that invokes
\* no scenario: StepExecutor(scenario["test_id"], ...).run(), then the check
\* of its status
OrchestratorStep(step, connected, start, output, elapsed_at) ==
    /\ run_pc = "steps"
    /\ step_index < MaxSteps
    /\ step \in ScenarioSteps(step_index + 1)
    /\ EntryCriteriaNotMet(step) \/ step \notin InvokeSteps(step_index + 1)
    /\ StepInputs(step, connected, start, output, elapsed_at)
    /\ LET o == StepOutcome(step, connected, start, output, elapsed_at)
       IN /\ RunInline("T", step, o, output)
          /\ StepReturn(step, o.skipped, o.status)
    /\ NoTaskStarted
    /\ UNCHANGED <<fin_index, test_id, nest_index, nest_status, nested_steps, nested_len,
                   results, fin_pass, last_fin>>

\* an invoke_scenario step of the scenario whose entry criteria are met:
\* StepExecutor.run -> ScenarioInvoker.execute -> ScenarioRunner.run, up to
\* its loop; ScenarioRunner.run sets test_id of the Context to the id of the
\* invoked scenario
InvokeScenario(step) ==
    /\ run_pc = "steps"
    /\ step_index < MaxSteps
    /\ step \in InvokeSteps(step_index + 1)
    /\ ~EntryCriteriaNotMet(step)
    /\ run_pc' = "nested"
    /\ test_id' = "N"
    /\ nest_index' = 0
    /\ nest_status' = TRUE
    /\ started' = started + 1
    /\ last_run' = [NoRun EXCEPT !.scenario_id = "T", !.step_id = step.step_id,
                                 !.step_type = step.step_type,
                                 !.executed = TRUE, !.attempts = 1,
                                 !.evaluated = (step.entry_criteria # ""),
                                 !.order = started + 1, !.writer = key_writer["k"]]
    /\ NoTaskStarted
    /\ UNCHANGED <<step_index, run_status, parameters_to_set, continued_steps, fin_index,
                   last_step, nested_steps, nested_len, step_results, result_index,
                   results, registered, key_writer, fin_pass, last_fin>>

\* one iteration of the loop of ScenarioRunner.run: StepExecutor(data["test_id"],
\* ...).run() on the next step of the invoked file, a step read in an earlier
\* invocation being the same step now
ScenarioRunnerStep(step, connected, start, output, elapsed_at) ==
    /\ run_pc = "nested"
    /\ nest_status
    /\ nest_index < MaxNested
    /\ nested_len = 0 \/ nest_index < nested_len
    /\ IF nest_index < Len(nested_steps)
       THEN step = nested_steps[nest_index + 1] /\ UNCHANGED nested_steps
       ELSE step \in NestedSteps(nest_index + 1) /\ nested_steps' = Append(nested_steps, step)
    /\ StepInputs(step, connected, start, output, elapsed_at)
    /\ LET o == StepOutcome(step, connected, start, output, elapsed_at)
       IN /\ RunInline("N", step, o, output)
          /\ nest_status' = o.status
          /\ last_step' = [step_id |-> step.step_id, continue |-> step.continue,
                           skipped |-> o.skipped, status |-> o.status]
    /\ nest_index' = nest_index + 1
    /\ NoTaskStarted
    /\ UNCHANGED <<run_pc, step_index, run_status, fin_index, test_id, nested_len,
                   results, fin_pass, last_fin>>

\* ScenarioRunner.run returns (None, run_status, ...) after its loop has run
\* every step of the file or has left on a failed step; ScenarioInvoker.execute
\* returns it, StepExecutor._execute_step adds the step result of the invoking
\* step, and the loop of _run_steps checks the status
ScenarioRunnerReturn ==
    /\ run_pc = "nested"
    /\ \/ ~nest_status
       \/ nest_index >= 1 /\ (nested_len = 0 \/ nest_index = nested_len)
    /\ nested_len' = IF nest_status THEN nest_index ELSE nested_len
    /\ nest_index' = 0
    /\ add_step_result("T", step_index + 1, IF nest_status THEN "success" ELSE "fail")
    /\ StepReturn([step_id |-> step_index + 1, continue |-> FALSE], FALSE, nest_status)
    /\ last_run' = [NoRun EXCEPT !.scenario_id = "T", !.step_id = step_index + 1,
                                 !.step_type = "invoke_scenario",
                                 !.executed = TRUE, !.attempts = 1]
    /\ NoTaskStarted
    /\ UNCHANGED <<parameters_to_set, continued_steps, fin_index, test_id, nest_status,
                   nested_steps, results, started, registered, key_writer, fin_pass,
                   last_fin>>

\* a finalize_all_continued_steps that takes no entry for validated
NeverValidated(info) == FALSE

\* finalize_all_continued_steps: if info.get("validated"): continue
AlreadyValidated(info) == info.validated

\* one iteration of the loop of finalize_all_continued_steps.  A validated
\* entry is passed over.  Else StepExecutor(scenario_id, ...).run(
\* validate_continue=True): entry criteria that are not met add a 'skip' step
\* result and return (None, True, ...); else CommandExecutor.execute ->
\* validate_continued_step marks the entry validated, waits for the task
\* (output is the stdout of its result), applies the output analysis and,
\* when the step has an expected output, validates and calls
\* update_step_result.  results[scenario_id] is set from the returned status.
\* (last_run describes the last inline run; none is in progress here.)
FinalizeContinuedStep(output) ==
    /\ run_pc = "finalize"
    /\ fin_index <= Len(continued_steps)
    /\ LET info == continued_steps[fin_index]
           step == info.step
           status == step.expected_output = "" \/ output_validation(output, step.expected_output)
           seen == [NoFin EXCEPT !.seq = info.seq, !.result_at = info.result_at,
                                 !.evaluated = (step.entry_criteria # ""),
                                 !.order = info.order, !.writer = key_writer["k"]]
       IN IF AlreadyValidated(info)
          THEN /\ output = ""
               /\ UNCHANGED <<continued_steps, step_results, result_index, results,
                              parameters_to_set, key_writer, last_fin>>
          ELSE IF EntryCriteriaNotMet(step)
          THEN /\ output = ""
               /\ add_step_result(info.scenario_id, step.step_id, "skip")
               /\ results' = [results EXCEPT ![info.scenario_id] =
                                 [step_id |-> step.step_id, status |-> "success"]]
               /\ last_fin' = seen
               /\ UNCHANGED <<continued_steps, parameters_to_set, key_writer>>
          ELSE /\ continued_steps' = [continued_steps EXCEPT ![fin_index] =
                       [@ EXCEPT !.validated = TRUE,
                                 !.outcome = IF status THEN "success" ELSE "error",
                                 !.pass = fin_pass]]
               /\ IF step.output_analysis # ""
                  THEN /\ output_analysis(output, step.output_analysis)
                       /\ key_writer' = [key_writer EXCEPT !["k"] = info.order]
                  ELSE UNCHANGED <<parameters_to_set, key_writer>>
               /\ IF step.expected_output # ""
                  THEN update_step_result(step.step_id, IF status THEN "success" ELSE "fail")
                  ELSE UNCHANGED step_results
               /\ results' = [results EXCEPT ![info.scenario_id] =
                                 [step_id |-> step.step_id,
                                  status |-> IF status THEN "success" ELSE "error"]]
               /\ last_fin' = [seen EXCEPT !.finalized = TRUE, !.status = status]
               /\ UNCHANGED result_index
    /\ fin_index' = fin_index + 1
    /\ last_run' = NoRun
    /\ NoTaskStarted
    /\ UNCHANGED <<run_pc, step_index, run_status, last_step, test_id, nest_index,
                   nest_status, nested_steps, nested_len, started, registered, fin_pass>>

\* finalize_all_continued_steps is called again on the Context of the run
FinalizeAgain ==
    /\ run_pc = "returned"
    /\ fin_pass < MaxAgain
    /\ fin_pass' = fin_pass + 1
    /\ run_pc' = "finalize"
    /\ fin_index' = 1
    /\ results' = [id \in ScenarioIds |-> NoRecord]
    /\ NoTaskStarted
    /\ UNCHANGED <<step_index, run_status, parameters_to_set, continued_steps, last_step,
                   test_id, nest_index, nest_status, nested_steps, nested_len,
                   step_results, result_index, started, registered, key_writer,
                   last_run, last_fin>>

\* the next step of the scenario or of the invoked scenario, with what its
\* environment does
ScenarioStep ==
    \E connected \in BOOLEAN, start \in Starts, output \in Outputs, elapsed_at \in 0..MaxLoop :
        \/ /\ run_pc = "steps" /\ step_index < MaxSteps
           /\ \E step \in ScenarioSteps(step_index + 1) :
                 OrchestratorStep(step, connected, start, output, elapsed_at)
        \/ /\ run_pc = "nested" /\ nest_index < MaxNested
           /\ \E step \in NestedSteps(nest_index + 1) \cup
                          {nested_steps[i] : i \in {nest_index + 1} \cap DOMAIN nested_steps} :
                 ScenarioRunnerStep(step, connected, start, output, elapsed_at)

ScenarioCoordinator ==
    \/ ScenarioStep
    \/ run_pc = "steps" /\ step_index < MaxSteps
          /\ \E step \in InvokeSteps(step_index + 1) : InvokeScenario(step)
    \/ ScenarioRunnerReturn
    \/ EndSteps
    \/ \E output \in Outputs : FinalizeContinuedStep(output)
    \/ FinalizeReturn
    \/ FinalizeAgain

ScenarioNext == ScenarioCoordinator

ScenarioSpec == Init /\ [][ScenarioNext]_vars

(***************************************************************************)
(* Properties of the task lifecycle.                                       *)
(***************************************************************************)
\* a step in which wait_for_task returns to its caller
WaitReturns == wt_pc # "idle" /\ wt_pc' = "idle"

\* the step in which terminate_task looks its task id up
TermLooksUp == tm_pc = "enter" /\ tm_pc' # "enter"

\* C1: once wait_for_task has returned a terminal result for a task, the next
\* wait_for_task on the task (its result not having been closed) returns the
\* same status, return code, stdout and stderr.
C1_WaitIdempotent ==
    [][(/\ WaitReturns
        /\ last_wait.task = wt_task
        /\ last_wait.ret.status \in TerminalStatuses
        /\ ~closed'[wt_task])
       => last_wait'.ret = last_wait.ret]_vars

\* C2: a wait_for_task whose deadline elapsed before the worker set the
\* completion event returns a TaskResult with status TIMEOUT.
C2_DeadlineGivesTimeout ==
    last_wait.expired => last_wait.ret.status = TIMEOUT

\* C3: after terminate_task has acted on a task of the running table, the
\* completed table holds a TERMINATED result for it (until it is closed), also
\* when the termination attempt raised; on SSH once the worker has read the
\* terminated flag for its status and has published.
C3_TerminatedStored ==
    \A t \in TaskIds :
        /\ (conn[t] = "local" /\ term_acted[t] /\ ~closed[t])
              => completed_tasks[t].status = TERMINATED
        /\ (conn[t] = "ssh" /\ term_acted[t] /\ observed_flag[t] /\ worker[t] = "done"
                /\ ~closed[t])
              => completed_tasks[t].status = TERMINATED

\* the termination attempt raised and the TERMINATED result is stored all the same
C3_Witness ==
    \E t \in TaskIds :
        /\ conn[t] = "local" /\ term_acted[t]
        /\ last_term = [task |-> t, ret |-> FALSE, found |-> TRUE]
        /\ completed_tasks[t] = TerminatedResult(TRUE)

\* C4: once completed_tasks holds a terminal result for a task id, no step
\* replaces it with a result of another status.
C4_StatusNeverReplaced ==
    [][\A t \in TaskIds :
          (completed_tasks[t] # None /\ completed_tasks'[t] # None)
             => completed_tasks'[t].status = completed_tasks[t].status]_vars

\* C5: a started background task whose command has exited, or which is waited
\* for with a finite timeout, or which is being terminated, eventually has a
\* result in completed_tasks; and a result leaves completed_tasks only in a
\* close_task / close_all_completed_tasks step.
C5_EventuallyStored ==
    /\ \A t \in TaskIds :
          (/\ exec_ret[t] = RUNNING
           /\ \/ process[t] = "exited"
              \/ wt_task = t /\ wt_timeout = "finite"
              \/ tm_task = t)
          ~> stored[t]
    /\ [][\A t \in TaskIds :
             (completed_tasks[t] # None /\ completed_tasks'[t] = None)
                => (CloseTask(t) \/ CloseAllCompletedTasks(t))]_vars

\* C6: every wait_for_task call with a finite timeout returns.
C6_FiniteWaitReturns ==
    (wt_pc # "idle" /\ wt_timeout = "finite") ~> (wt_pc = "idle")

NotRunning(t) ==
    \/ conn[t] = "none"
    \/ worker[t] = "done"
    \/ conn[t] = "local" /\ term_acted[t]

\* C8 (as amended): terminate_task on an unknown id, on a task whose worker has
\* finished or on a local task already terminated returns False and leaves
\* background_tasks and completed_tasks unchanged; on SSH no step of
\* terminate_task changes the two tables.
C8_NoOpWhenNotRunning ==
    /\ [][(TermLooksUp /\ NotRunning(tm_task))
             => (/\ tm_pc' = "idle"
                 /\ last_term'.ret = FALSE
                 /\ UNCHANGED <<background_tasks, completed_tasks>>)]_vars
    /\ [][(tm_pc # "idle" /\ tm_pc' # tm_pc /\ conn[tm_task] = "ssh")
             => UNCHANGED <<background_tasks, completed_tasks>>]_vars

\* a second terminate_task on a local task returned False
C8_Witness ==
    \E t \in TaskIds :
        /\ conn[t] = "local" /\ term_acted[t]
        /\ last_term = [task |-> t, ret |-> FALSE, found |-> FALSE]

\* C8 (as stated): terminate_task on an unknown id, on a completed task or on a
\* task terminate_task has already acted on returns False and leaves
\* background_tasks and completed_tasks unchanged.
C8_ReturnsFalse ==
    [][(TermLooksUp /\ (NotRunning(tm_task) \/ term_acted[tm_task]))
          => (/\ tm_pc' = "idle"
              /\ last_term'.ret = FALSE
              /\ UNCHANGED <<background_tasks, completed_tasks>>)]_vars

(***************************************************************************)
(* Properties of the scenario run.                                         *)
(***************************************************************************)
\* the process or the worker thread of task t has been started
TaskStarted(t) == process[t] # "none" \/ worker[t] # "idle"

\* C9: when _run_steps has returned, every continued step registered during
\* the run has been revisited and is marked validated.
C9_AllContinuedValidated ==
    run_pc = "returned"
       => \A i \in 1..Len(continued_steps) : continued_steps[i].validated

\* C10: when a command step with continue=true has reported success, the
\* continued-step table holds an unvalidated entry for its step id that
\* carries the connection and the task id of a background task that was
\* started.
C10_StartedStepRegistered ==
    (run_pc = "steps" /\ last_step.continue /\ ~last_step.skipped /\ last_step.status)
       => \E i \in 1..Len(continued_steps) :
             /\ continued_steps[i].step.step_id = last_step.step_id
             /\ ~continued_steps[i].validated
             /\ conn[continued_steps[i].task_id] = continued_steps[i].step.connection_type
             /\ TaskStarted(continued_steps[i].task_id)

(***************************************************************************)
(* Properties of the scenario run with its step results.                   *)
(***************************************************************************)
\* a step of finalize_all_continued_steps in which validate_continued_step
\* finalizes the entry at fin_index
Finalizes ==
    /\ run_pc = "finalize"
    /\ fin_index' = fin_index + 1
    /\ ~continued_steps[fin_index].validated
    /\ continued_steps'[fin_index].validated

\* C11: finalizing a continued step leaves the number of step results as it
\* is, sets the status of the result that was appended when the step was
\* started to success or fail as the finalization went, and changes no other
\* step result.
C11_UpdatesOwnResult ==
    [][Finalizes =>
          LET info == continued_steps'[fin_index]
          IN /\ Len(step_results') = Len(step_results)
             /\ step_results'[info.result_at].status =
                   (IF info.outcome = "success" THEN "success" ELSE "fail")
             /\ \A i \in 1..Len(step_results) :
                   i # info.result_at => step_results'[i] = step_results[i]]_vars

\* a step of finalize_all_continued_steps on an entry that is marked validated
MeetsValidated ==
    /\ run_pc = "finalize"
    /\ fin_index' = fin_index + 1
    /\ continued_steps[fin_index].validated

\* C12: when finalize_all_continued_steps comes to a continued step that is
\* already validated, no StepExecutor run is made for it (no wait, no
\* analysis), and the entry, the step results, the diagnostic keys and the
\* result map stay as they are.
C12_RefinalizeIsNoOp ==
    [][MeetsValidated =>
          UNCHANGED <<continued_steps, step_results, result_index, results,
                      parameters_to_set, key_writer, last_fin>>]_vars

\* a second finalize_all_continued_steps has passed over a step that the
\* first one validated, a step whose finalization had changed a step result
C12_Witness ==
    /\ run_pc = "finalize"
    /\ fin_pass = 1
    /\ fin_index > 1
    /\ continued_steps[fin_index - 1].validated
    /\ continued_steps[fin_index - 1].pass = 0
    /\ continued_steps[fin_index - 1].outcome = "error"
    /\ continued_steps[fin_index - 1].step.output_analysis # ""

\* C13: when finalize_all_continued_steps has returned, every continued step
\* it had to revisit has been finalized, also after the finalization of
\* another step failed (steps without entry criteria are looked at: the others
\* are the matter of C9), and the result map holds for every step finalized in
\* this call a record of its own with the status of its finalization.
C13_RecordPerFinalizedStep ==
    run_pc = "returned"
       => \A i \in 1..Len(continued_steps) :
             LET info == continued_steps[i]
             IN /\ info.step.entry_criteria = "" => info.validated
                /\ (info.validated /\ info.pass = fin_pass)
                      => results[info.scenario_id] =
                            [step_id |-> info.step_id, status |-> info.outcome]

\* C14: once the finalization of the continued steps has started, no inline
\* step of the scenario or of an invoked scenario starts any more, and the
\* continued steps are revisited in the order in which they were registered.
C14_FinalizedInRegistrationOrder ==
    [][/\ run_pc \in {"finalize", "returned"}
          => (started' = started /\ run_pc' \in {"finalize", "returned"})
       /\ (run_pc = "finalize" /\ fin_pass = 0 /\ last_fin' # last_fin /\ last_fin.seq # 0)
          => last_fin'.seq > last_fin.seq]_vars

\* C15: whenever entry criteria have been evaluated, in an inline run of the
\* step or when the continued step is revisited at finalization, the value of
\* the diagnostic key they read was written by a step that comes strictly
\* before the step in the run (or the key was never written).
C15_NoForwardVisibility ==
    /\ last_run.evaluated => last_run.writer < last_run.order
    /\ last_fin.evaluated => last_fin.writer < last_fin.order

\* C16: an inline step that starts is the step declared next after the step
\* of its scenario that returned last (the first step when none has run): a
\* step of the scenario given to the orchestrator starts only in its loop, with
\* no invoked scenario in progress, and a step of an invoked scenario only in
\* the loop of ScenarioRunner.run.
C16_DeclarationOrder ==
    [][started' = started + 1 =>
          IF run_pc = "steps"
          THEN /\ last_run'.scenario_id = "T"
               /\ last_run'.step_id = last_step.step_id + 1
               /\ last_step.step_id = step_index
          ELSE /\ run_pc = "nested"
               /\ last_run'.scenario_id = "N"
               /\ last_run'.step_id = (IF nest_index = 0 THEN 1 ELSE last_step.step_id + 1)]_vars

\* the third step of the scenario has started after the first two returned,
\* one of them having invoked a scenario that ran two steps
C16_Witness ==
    /\ run_pc = "steps"
    /\ step_index = 3
    /\ last_run.scenario_id = "T" /\ last_run.step_id = 3
    /\ nested_len = 2
    /\ started = 5

\* C17: an inline step starts only when the step that returned last did not
\* fail, whatever its continue flag; and when ScenarioRunner.run returns after
\* a failed step of the invoked scenario, the invoking step fails and the loop
\* of _run_steps is left.
C17_HaltOnFirstFailure ==
    [][/\ started' = started + 1 => last_step.status
       /\ (run_pc = "nested" /\ run_pc' # "nested" /\ ~last_step.status)
          => (/\ ~last_step'.status
              /\ ~run_status'
              /\ run_pc' = "finalize"
              /\ step_results'[Len(step_results')] =
                    [scenario_id |-> "T", step_id |-> step_index', status |-> "fail"])]_vars

\* a continued step of the invoked scenario failed to start: the invoking
\* step 1 failed and the scenario halted with its later steps not run
C17_Witness ==
    /\ run_pc = "finalize"
    /\ step_index = 1
    /\ ~run_status
    /\ Len(nested_steps) = 1 /\ nested_steps[1].continue
    /\ step_results = <<[scenario_id |-> "N", step_id |-> 1, status |-> "fail"],
                        [scenario_id |-> "T", step_id |-> 1, status |-> "fail"]>>

\* C18: when every execution attempt of a step raised, StepExecutor.run has
\* returned status false, the `loop` repetitions being exhausted or the
\* `duration` having elapsed.
C18_RaisingStepFails ==
    last_run.raised => ~last_step.status

\* C19: when StepExecutor.run has returned for a step whose step_type is
\* unknown, the status it returned is false and the scenario has halted: the
\* loop of inline steps has been left.
C19_UnknownTypeFails ==
    (last_run.step_type \notin {"", "command_execution", "invoke_scenario"})
       => (~last_step.status /\ run_pc \in {"finalize", "returned"})

\* C20: an inline run of a step whose entry criteria are not met invokes no
\* executor, appends a step result with status 'skip' for the step and
\* returns status true: the loop of the scenario goes on with the next step,
\* and nothing is registered or analysed.
C20_UnmetCriteriaSkip ==
    [][(started' = started + 1 /\ last_run'.evaluated /\ parameters_to_set["k"] # "true")
          => (/\ ~last_run'.executed /\ last_run'.attempts = 0
              /\ step_results' = Append(step_results,
                     [scenario_id |-> last_run'.scenario_id,
                      step_id |-> last_run'.step_id, status |-> "skip"])
              /\ last_step'.skipped /\ last_step'.status
              /\ run_pc' = run_pc
              /\ run_pc = "steps" => (run_status' /\ step_index' = step_index + 1)
              /\ run_pc = "nested" => (nest_status' /\ nest_index' = nest_index + 1)
              /\ UNCHANGED <<continued_steps, parameters_to_set>>)]_vars

\* step 2 of the scenario was skipped, its criteria reading a key that step 1
\* had set to false, and step 3 has run after it
C20_Witness ==
    /\ step_index = 3
    /\ Len(step_results) = 3
    /\ step_results[2] = [scenario_id |-> "T", step_id |-> 2, status |-> "skip"]
    /\ step_results[3].status = "success"
    /\ parameters_to_set["k"] = "false"
    /\ key_writer["k"] = 1

(***************************************************************************)
(* ExpressionEvaluator (expression/evaluator.py) on a list of entry        *)
(* criteria, as the first block of StepExecutor.run calls it.  An          *)
(* expression is a Python expression over the diagnostic keys; eval is     *)
(* modelled for key references and the operators not, and, or, with        *)
(* Python's order of evaluation, and for an expression that raises.        *)
(***************************************************************************)
\* largest number of criteria in the entry_criteria of a step
MaxCriteria == 3

\* names of diagnostic keys an expression can refer to
Names == {"x", "y"}

\* the diagnostic-key maps: a key holds True or False, or is not in the map
KeyMaps == [Names -> {"true", "false", "unset"}]

\* criterion.get("expression"): None when the criterion has no expression
\* ("none"), "" ("empty"), a key, not a, a and b, a or b, or 1/0 ("div")
Expressions ==
    [op : {"none", "empty", "div"}, a : {"x"}, b : {"x"}]
       \cup [op : {"key", "not"}, a : Names, b : {"x"}]
       \cup [op : {"and", "or"}, a : Names, b : Names]

\* eval(expression, {}, diagnostic_keys): the value, or "raise" (NameError
\* for a key that is not in the map when Python evaluates the reference: the
\* right operand of and / or is evaluated only when the left one does not
\* decide; ZeroDivisionError for 1/0)
eval(expression, diagnostic_keys) ==
    LET a == diagnostic_keys[expression.a]
        b == diagnostic_keys[expression.b]
    IN CASE expression.op = "key" -> IF a = "unset" THEN "raise" ELSE a
         [] expression.op = "not" ->
               IF a = "unset" THEN "raise" ELSE IF a = "true" THEN "false" ELSE "true"
         [] expression.op = "and" ->
               IF a = "unset" THEN "raise"
               ELSE IF a = "false" THEN "false"
               ELSE IF b = "unset" THEN "raise" ELSE b
         [] expression.op = "or" ->
               IF a = "unset" THEN "raise"
               ELSE IF a = "true" THEN "true"
               ELSE IF b = "unset" THEN "raise" ELSE b
         [] OTHER -> "raise"

\* a variant of evaluate_single that takes an expression that raises for met
evaluate_single_fail_open(expression, diagnostic_keys) ==
    /\ expression.op \notin {"none", "empty"}
    /\ eval(expression, diagnostic_keys) # "false"

\* ExpressionEvaluator._evaluate_single: False without an expression, the
\* value of eval, False when eval raises (except Exception)
evaluate_single(expression, diagnostic_keys) ==
    /\ expression.op \notin {"none", "empty"}
    /\ eval(expression, diagnostic_keys) = "true"

\* the list `results` of ExpressionEvaluator.evaluate: a criterion that is not
\* met appends False, and every criterion appends True
RECURSIVE evaluate_results(_, _)
evaluate_results(entry_criteria, diagnostic_keys) ==
    IF entry_criteria = <<>> THEN <<>>
    ELSE (IF evaluate_single(Head(entry_criteria), diagnostic_keys)
          THEN <<TRUE>> ELSE <<FALSE, TRUE>>)
            \o evaluate_results(Tail(entry_criteria), diagnostic_keys)

\* a variant of evaluate_list that returns results[0] for every list
evaluate_first(entry_criteria, diagnostic_keys) ==
    LET verdicts == evaluate_results(entry_criteria, diagnostic_keys)
    IN IF verdicts = <<>> THEN TRUE ELSE verdicts[1]

\* ExpressionEvaluator.evaluate on a list of criteria: results[0] when results
\* (here verdicts) has one element, else all(results)
evaluate_list(entry_criteria, diagnostic_keys) ==
    LET verdicts == evaluate_results(entry_criteria, diagnostic_keys)
    IN IF Len(verdicts) = 1 THEN verdicts[1]
       ELSE \A i \in 1..Len(verdicts) : verdicts[i]

\* the lists of at most n criteria
RECURSIVE CriteriaLists(_)
CriteriaLists(n) ==
    IF n = 0 THEN {<<>>}
    ELSE CriteriaLists(n - 1)
            \cup {Append(l, e) : l \in {m \in CriteriaLists(n - 1) : Len(m) = n - 1},
                                 e \in Expressions}

\* what a call of the library leaves alone outside call and ret
LibOnly ==
    UNCHANGED <<conn_vars, proc_vars, worker_vars, wait_vars, term_vars, hist_vars,
                run_pc, step_index, run_status, parameters_to_set, continued_steps,
                fin_index, last_step, scen_vars>>

\* a step with entry criteria is about to be run on a diagnostic-key map
InitEntryCheck ==
    /\ InitConnection /\ InitRun
    /\ call \in [fn : {"evaluate"}, entry_criteria : CriteriaLists(MaxCriteria),
                 diagnostic_keys : KeyMaps]
    /\ ret = NotReturned

\* StepExecutor.run, first block: `if entry_criteria and not
\* self.evaluator.evaluate(entry_criteria, diagnostic_keys)` skips the step.
\* No exception leaves evaluate: _evaluate_single catches every Exception.
EntryCheck ==
    /\ call.fn = "evaluate"
    /\ ~ret.returned
    /\ LET met == evaluate_list(call.entry_criteria, call.diagnostic_keys)
       IN ret' = [returned |-> TRUE, raised |-> FALSE, value |-> met,
                  skipped |-> (call.entry_criteria # <<>> /\ ~met)]
    /\ UNCHANGED call
    /\ LibOnly

EntryCheckSpec == InitEntryCheck /\ [][EntryCheck]_vars

\* a criterion evaluates to a true value over the keys
TrueOver(expression, diagnostic_keys) ==
    /\ expression.op \notin {"none", "empty"}
    /\ eval(expression, diagnostic_keys) = "true"

\* C21: ExpressionEvaluator.evaluate returns true exactly when every
\* criterion of the list evaluates to a true value over the keys, for lists
\* of every length; with x true and y false, [x, y] gives false and [x] true.
C21_AllCriteriaMet ==
    (call.fn = "evaluate" /\ ret.returned)
       => /\ ret.value = (\A i \in 1..Len(call.entry_criteria) :
                             TrueOver(call.entry_criteria[i], call.diagnostic_keys))
          /\ (call.diagnostic_keys = [x |-> "true", y |-> "false"])
                => /\ call.entry_criteria = <<[op |-> "key", a |-> "x", b |-> "x"],
                                               [op |-> "key", a |-> "y", b |-> "x"]>>
                         => ~ret.value
                   /\ call.entry_criteria = <<[op |-> "key", a |-> "x", b |-> "x"]>>
                         => ret.value

\* evaluate has returned false for [x, y] over x true, y false
C21_Witness ==
    /\ call.fn = "evaluate" /\ ret.returned
    /\ call.diagnostic_keys = [x |-> "true", y |-> "false"]
    /\ call.entry_criteria = <<[op |-> "key", a |-> "x", b |-> "x"],
                                [op |-> "key", a |-> "y", b |-> "x"]>>
    /\ ~ret.value

\* the expression names a key that is not in the diagnostic-key map
RefersToMissingKey(expression, diagnostic_keys) ==
    \/ expression.op \in {"key", "not", "and", "or"}
          /\ diagnostic_keys[expression.a] = "unset"
    \/ expression.op \in {"and", "or"} /\ diagnostic_keys[expression.b] = "unset"

\* C22, as stated: a list with a criterion whose expression is missing, is
\* empty, refers to a key that is not in the map or raises is evaluated to
\* false without an exception, and the step is skipped.
C22_FailClosed ==
    (call.fn = "evaluate" /\ ret.returned)
       => \A i \in 1..Len(call.entry_criteria) :
             LET e == call.entry_criteria[i]
             IN (\/ e.op \in {"none", "empty"}
                 \/ RefersToMissingKey(e, call.diagnostic_keys)
                 \/ eval(e, call.diagnostic_keys) = "raise")
                   => (~ret.raised /\ ~ret.value /\ ret.skipped)

\* C22, amended: a list with a criterion whose expression is missing, is
\* empty or raises when it is evaluated (a reference to a key that is not in
\* the map raises when Python evaluates it) is evaluated to false without an
\* exception, and the step is skipped.
C22_FailClosedWhenRaised ==
    (call.fn = "evaluate" /\ ret.returned)
       => \A i \in 1..Len(call.entry_criteria) :
             LET e == call.entry_criteria[i]
             IN (\/ e.op \in {"none", "empty"}
                 \/ eval(e, call.diagnostic_keys) = "raise")
                   => (~ret.raised /\ ~ret.value /\ ret.skipped)

\* a step was skipped on the criteria [x, y] with y not in the map
C22_Witness ==
    /\ call.fn = "evaluate" /\ ret.returned
    /\ call.diagnostic_keys = [x |-> "true", y |-> "unset"]
    /\ call.entry_criteria = <<[op |-> "key", a |-> "x", b |-> "x"],
                                [op |-> "key", a |-> "y", b |-> "x"]>>
    /\ ret.skipped /\ ~ret.raised

(***************************************************************************)
(* OutputAnalysis.analyze (analysis/output_analysis.py) with               *)
(* Context.update_diagnostic_context, and the entry check of a later step  *)
(* on the key map it has written.  A command output is a string over two   *)
(* characters and a regex a literal: re.search finds it anywhere in the    *)
(* output.                                                                 *)
(***************************************************************************)
\* largest number of rules in the output_analysis of a step
MaxRules == 2

\* largest length of a command output and of a regex
MaxText == 2

\* the strings of at most n characters
RECURSIVE Strings(_)
Strings(n) ==
    IF n = 0 THEN {<<>>}
    ELSE Strings(n - 1)
            \cup {Append(t, c) : t \in {u \in Strings(n - 1) : Len(u) = n - 1},
                                 c \in {"o", "k"}}

\* a variant of re_search that looks for the pattern at the start only (re.match)
re_match(pattern, output) ==
    Len(pattern) <= Len(output) /\ SubSeq(output, 1, Len(pattern)) = pattern

\* bool(re.search(pattern, output)) for a literal pattern
re_search(pattern, output) ==
    \E i \in 0..(Len(output) - Len(pattern)) :
        SubSeq(output, i + 1, i + Len(pattern)) = pattern

\* the rules of an output_analysis: {regex, parameter_to_set}
AnalysisRules == [regex : Strings(MaxText) \ {<<>>}, parameter_to_set : Names]

\* the lists of at most n rules
RECURSIVE RuleLists(_)
RuleLists(n) ==
    IF n = 0 THEN {<<>>}
    ELSE RuleLists(n - 1)
            \cup {Append(l, r) : l \in {m \in RuleLists(n - 1) : Len(m) = n - 1},
                                 r \in AnalysisRules}

\* a step has run a command and is about to analyse its output; no key is
\* set (Context.__init__).  `gate` is the key a later step is gated on.
InitAnalyze ==
    /\ InitConnection /\ InitRun
    /\ call \in [fn : {"analyze"}, rules : RuleLists(MaxRules),
                 output : Strings(MaxText), gate : Names]
    /\ ret = [returned |-> FALSE, index |-> 0,
              parameters_to_set |-> [key \in Names |-> "unset"]]

\* one iteration of the loop of OutputAnalysis.analyze: value =
\* bool(re.search(pattern, output)), and Context.update_diagnostic_context
\* sets parameters_to_set[key] = value
AnalyzeRule ==
    /\ call.fn = "analyze"
    /\ ~ret.returned
    /\ ret.index < Len(call.rules)
    /\ LET rule == call.rules[ret.index + 1]
           value == IF re_search(rule.regex, call.output) THEN "true" ELSE "false"
       IN ret' = [ret EXCEPT !.index = ret.index + 1,
                             !.parameters_to_set[rule.parameter_to_set] = value]
    /\ UNCHANGED call
    /\ LibOnly

\* OutputAnalysis.analyze returns after the last rule
AnalyzeReturn ==
    /\ call.fn = "analyze"
    /\ ~ret.returned
    /\ ret.index = Len(call.rules)
    /\ ret' = [returned |-> TRUE, index |-> ret.index,
               parameters_to_set |-> ret.parameters_to_set,
               gated |-> FALSE, runs_if_set |-> FALSE, runs_if_not_set |-> FALSE]
    /\ UNCHANGED call
    /\ LibOnly

\* the entry checks of two later steps on context.get_parameters_to_set():
\* one gated on the key `gate`, one gated on `not gate`; a step runs when
\* its criteria are met
GatedSteps ==
    /\ call.fn = "analyze"
    /\ ret.returned /\ ~ret.gated
    /\ ret' = [ret EXCEPT
                 !.gated = TRUE,
                 !.runs_if_set = evaluate_list(
                     <<[op |-> "key", a |-> call.gate, b |-> "x"]>>, ret.parameters_to_set),
                 !.runs_if_not_set = evaluate_list(
                     <<[op |-> "not", a |-> call.gate, b |-> "x"]>>, ret.parameters_to_set)]
    /\ UNCHANGED call
    /\ LibOnly

AnalyzeNext == AnalyzeRule \/ AnalyzeReturn \/ GatedSteps

AnalyzeSpec == InitAnalyze /\ [][AnalyzeNext]_vars

\* the literal pattern occurs somewhere in the output
FoundIn(pattern, output) ==
    \E i \in 1..Len(output) :
        /\ i + Len(pattern) - 1 <= Len(output)
        /\ \A j \in 1..Len(pattern) : output[i + j - 1] = pattern[j]

\* C23: every rule of an output analysis sets its key, in the flat key map
\* the entry criteria read, to true when its regex is found in the output and
\* to false when it is not, and leaves the other keys as they are; a later
\* step gated on a key that was set to true runs, and a later step gated on
\* `not` that key is skipped.
C23_AnalysisSetsKeys ==
    [][/\ (call.fn = "analyze" /\ ret'.index = ret.index + 1)
          => LET rule == call.rules[ret.index + 1]
             IN /\ ret'.parameters_to_set[rule.parameter_to_set] =
                      (IF FoundIn(rule.regex, call.output) THEN "true" ELSE "false")
                /\ \A key \in Names \ {rule.parameter_to_set} :
                      ret'.parameters_to_set[key] = ret.parameters_to_set[key]
       /\ (call.fn = "analyze" /\ ret.returned /\ ret'.gated
             /\ ret.parameters_to_set[call.gate] = "true")
          => (ret'.runs_if_set /\ ~ret'.runs_if_not_set)]_vars

\* step 1 printed "ok" under the rule {regex: ok, parameter_to_set: x}; the
\* step gated on x has run and the step gated on `not x` was skipped
C23_Witness ==
    /\ call.fn = "analyze"
    /\ call.output = <<"o", "k">>
    /\ call.rules = <<[regex |-> <<"o", "k">>, parameter_to_set |-> "x"]>>
    /\ call.gate = "x"
    /\ ret.returned /\ ret.gated
    /\ ret.parameters_to_set["x"] = "true"
    /\ ret.runs_if_set /\ ~ret.runs_if_not_set

(***************************************************************************)
(* DiagnosticAnalysis.analyze and search_and_manage                        *)
(* (analysis/diagnostic_analysis.py).  A pattern is a literal, with or     *)
(* without a capturing group around it; a diagnostic code is a string.     *)
(***************************************************************************)
\* rule.get(...) gives None: the rule has no such field
NoPattern == [literal |-> <<>>, grouped |-> FALSE]
NoCode == <<>>
NoKey == "none"

\* search_string / diagnostic_search_string of a rule
DiagPatterns == {NoPattern} \cup [literal : {<<"o">>, <<"k">>}, grouped : BOOLEAN]

\* the rules of a diagnostic analysis
DiagRules ==
    [search_string : DiagPatterns, diagnostic_search_string : DiagPatterns,
     diagnostic_result_code : {NoCode, <<"E1">>}, parameter_to_set : {NoKey, "x"}]

\* the lists of at most n rules
RECURSIVE DiagRuleLists(_)
DiagRuleLists(n) ==
    IF n = 0 THEN {<<>>}
    ELSE DiagRuleLists(n - 1)
            \cup {Append(l, r) : l \in {m \in DiagRuleLists(n - 1) : Len(m) = n - 1},
                                 r \in DiagRules}

\* the codes the matches of one pattern produce in search_and_manage: the
\* fixed diagnostic_result_code of the entry (CASE 2); without one, the text
\* of the first group (CASE 3); a match without a code is passed over
MatchCodes(pattern, log_data, entry) ==
    IF ~re_search(pattern.literal, log_data) THEN <<>>
    ELSE IF entry.diagnostic_result_code # NoCode THEN <<entry.diagnostic_result_code>>
    ELSE IF pattern.grouped THEN <<pattern.literal>>
    ELSE <<>>

\* DiagnosticAnalysis.search_and_manage: the codes of the matches are added
\* as keys to diagnostics_map, the map shared by the rules of the analysis,
\* and dict(diagnostics_map) is returned (here: its keys in insertion order)
search_and_manage(regex_key, log_data, entry, diagnostics_map) ==
    LET codes == MatchCodes(regex_key, log_data, entry)
    IN IF codes = <<>> \/ \E i \in 1..Len(diagnostics_map) : diagnostics_map[i] = codes[1]
       THEN diagnostics_map
       ELSE diagnostics_map \o codes

\* the rule is passed over by one of the three `continue` of analyze
RulePassedOver(rule) ==
    \/ rule.search_string # NoPattern /\ rule.diagnostic_search_string # NoPattern
    \/ rule.search_string # NoPattern /\ rule.diagnostic_result_code = NoCode
    \/ rule.diagnostic_search_string # NoPattern /\ rule.diagnostic_result_code # NoCode

\* a step has run a command and is about to apply its diagnostic analysis
InitDiagnostic ==
    /\ InitConnection /\ InitRun
    /\ call \in [fn : {"diagnostic"}, rules : DiagRuleLists(MaxRules),
                 output : Strings(MaxText)]
    /\ ret = [returned |-> FALSE, raised |-> FALSE, index |-> 0, warned |-> FALSE,
              diagnostics_map |-> <<>>,
              parameters_to_set |-> [key \in {"x"} |-> "unset"],
              diagnostic_codes |-> <<>>]

\* one iteration of the loop of DiagnosticAnalysis.analyze
DiagnosticRule ==
    /\ call.fn = "diagnostic"
    /\ ~ret.returned
    /\ ret.index < Len(call.rules)
    /\ LET rule == call.rules[ret.index + 1]
           pattern == IF rule.search_string # NoPattern THEN rule.search_string
                      ELSE rule.diagnostic_search_string
           diagnostic_result_codes ==
               search_and_manage(pattern, call.output, rule, ret.diagnostics_map)
           value == IF diagnostic_result_codes # <<>> THEN "true" ELSE "false"
       IN IF RulePassedOver(rule)
          THEN ret' = [ret EXCEPT !.index = ret.index + 1, !.warned = TRUE]
          ELSE IF pattern = NoPattern
          THEN \* re.compile(None) raises TypeError out of analyze
               ret' = [ret EXCEPT !.raised = TRUE, !.returned = TRUE]
          ELSE ret' = [ret EXCEPT
                  !.index = ret.index + 1,
                  !.warned = FALSE,
                  !.diagnostics_map = diagnostic_result_codes,
                  !.parameters_to_set =
                      IF rule.parameter_to_set # NoKey
                      THEN [@ EXCEPT ![rule.parameter_to_set] = value]
                      ELSE @,
                  !.diagnostic_codes =
                      IF diagnostic_result_codes # <<>>
                      THEN @ \o diagnostic_result_codes
                      ELSE @]
    /\ UNCHANGED call
    /\ LibOnly

\* DiagnosticAnalysis.analyze returns diagnostics_map after the last rule
DiagnosticReturn ==
    /\ call.fn = "diagnostic"
    /\ ~ret.returned
    /\ ret.index = Len(call.rules)
    /\ ret' = [ret EXCEPT !.returned = TRUE]
    /\ UNCHANGED call
    /\ LibOnly

DiagnosticNext == DiagnosticRule \/ DiagnosticReturn

DiagnosticSpec == InitDiagnostic /\ [][DiagnosticNext]_vars

\* C24: a rule that sets both search_string and diagnostic_search_string is
\* analysed with diagnostic_search_string: its parameter_to_set flag is
\* written, true when the matches of diagnostic_search_string produce a code,
\* and the codes are added to the diagnostic codes of the step; a warning is
\* logged and nothing is raised.
C24_ConflictUsesDiagnosticSearch ==
    [][(call.fn = "diagnostic" /\ ret'.index = ret.index + 1)
          => LET rule == call.rules[ret.index + 1]
                 codes == MatchCodes(rule.diagnostic_search_string, call.output, rule)
             IN (rule.search_string # NoPattern /\ rule.diagnostic_search_string # NoPattern)
                   => /\ ret'.warned /\ ~ret'.raised
                      /\ rule.parameter_to_set # NoKey
                            => ret'.parameters_to_set[rule.parameter_to_set] =
                                  (IF codes # <<>> THEN "true" ELSE "false")
                      /\ \A i \in 1..Len(codes) :
                            \E j \in 1..Len(ret'.diagnostics_map) :
                                ret'.diagnostics_map[j] = codes[i]]_vars

\* C25: the flag a rule with parameter_to_set writes is true exactly when the
\* matches of that rule's own pattern produced a code in the analysed text,
\* whatever the other rules of the analysis matched.
C25_FlagOfOwnPattern ==
    [][(call.fn = "diagnostic" /\ ret'.index = ret.index + 1)
          => LET rule == call.rules[ret.index + 1]
                 pattern == IF rule.search_string # NoPattern THEN rule.search_string
                            ELSE rule.diagnostic_search_string
             IN (~RulePassedOver(rule) /\ rule.parameter_to_set # NoKey)
                   => ret'.parameters_to_set[rule.parameter_to_set] =
                         (IF MatchCodes(pattern, call.output, rule) # <<>>
                          THEN "true" ELSE "false")]_vars

(***************************************************************************)
(* Two threads calling the mutation methods of Context (core/context.py)   *)
(* and of ResultCollector (result_builder/result_builder.py).  Neither     *)
(* class takes a lock in these methods, so the statements of two calls     *)
(* interleave; a thread's position is the statement it executes next.      *)
(***************************************************************************)
CallerThreads == {1, 2}
CalledStepIds == {1, 2}

Methods ==
    {"update_diagnostic_context", "add_diagnostic_code", "add_continued_step",
     "mark_validated", "add_step_result", "update_step_result", "add_diagnostic_keys"}

\* a dict of dicts keyed by a root key, the test id and the step id, as
\* diagnostic_context, diagnostic_codes and keys_to_set are; val[s] holds the
\* threads whose value is stored under step s
EmptyDict(root) ==
    [root |-> root, tc |-> FALSE, step |-> [s \in CalledStepIds |-> FALSE],
     val |-> [s \in CalledStepIds |-> {}]]

\* the state of both objects after construction (Context.__init__,
\* ResultCollector.reset)
FreshObjects ==
    [diagnostic_context |-> EmptyDict(FALSE),
     diagnostic_codes |-> EmptyDict(FALSE),
     keys_to_set |-> EmptyDict(TRUE),
     parameters_to_set |-> {},
     continued_steps |-> [scenario |-> FALSE, step |-> [s \in CalledStepIds |-> "absent"]],
     step_results |-> <<>>,
     step_index |-> [s \in CalledStepIds |-> -1]]

\* the outcome of one statement: the dict, the next statement, the thread
Outcome(d, at, state) == [d |-> d, at |-> at, state |-> state]

\* one statement of the check-then-create chain the three dict methods share:
\*   0  if root not in d:            1  d[root] = {}
\*   2  if tc not in d[root]:        3  d[root][tc] = {}
\*   4  if step not in d[root][tc]:  5  d[root][tc][step] = {} (or [])
\*   6  d[root][tc][step][key] = value (or .extend(codes))
\* a subscript of a key that is not there raises KeyError
NestedWrite(d, at, s, t) ==
    CASE at = 0 -> Outcome(d, IF d.root THEN 2 ELSE 1, "running")
      [] at = 1 -> Outcome(EmptyDict(TRUE), 2, "running")
      [] at = 2 -> Outcome(d, IF d.tc THEN 4 ELSE 3, "running")
      [] at = 3 -> Outcome([EmptyDict(TRUE) EXCEPT !.tc = TRUE], 4, "running")
      [] at = 4 -> IF ~d.tc THEN Outcome(d, at, "raised")
                   ELSE Outcome(d, IF d.step[s] THEN 6 ELSE 5, "running")
      [] at = 5 -> IF ~d.tc THEN Outcome(d, at, "raised")
                   ELSE Outcome([d EXCEPT !.step[s] = TRUE, !.val[s] = {}], 6, "running")
      [] OTHER  -> IF ~d.tc \/ ~d.step[s] THEN Outcome(d, at, "raised")
                   ELSE Outcome([d EXCEPT !.val[s] = @ \cup {t}], 7, "running")

\* two threads are about to call one mutation method each
InitConcurrent ==
    /\ InitConnection /\ InitRun
    /\ call \in [fn : {"concurrent"},
                 ops : [CallerThreads -> [method : Methods, step_id : CalledStepIds]]]
    /\ ret = [returned |-> FALSE,
              thread |-> [t \in CallerThreads |-> [at |-> 0, state |-> "running", idx |-> -1]],
              mem |-> FreshObjects]

Runs(t, method) ==
    /\ call.fn = "concurrent"
    /\ call.ops[t].method = method
    /\ ret.thread[t].state = "running"

\* the thread goes to its next statement, returns or raises
Goes(t, o, last) ==
    [ret.thread[t] EXCEPT !.at = o.at,
                          !.state = IF o.state = "running" /\ o.at > last
                                    THEN "returned" ELSE o.state]

\* Context.update_diagnostic_context: the chain on diagnostic_context["keys"],
\* then parameters_to_set[key] = value
update_diagnostic_context_statement(t) ==
    /\ Runs(t, "update_diagnostic_context")
    /\ LET s == call.ops[t].step_id
           at == ret.thread[t].at
           o == NestedWrite(ret.mem.diagnostic_context, at, s, t)
       IN IF at = 7
          THEN ret' = [ret EXCEPT !.mem.parameters_to_set = @ \cup {t},
                                  !.thread[t].state = "returned"]
          ELSE ret' = [ret EXCEPT !.mem.diagnostic_context = o.d,
                                  !.thread[t] = Goes(t, o, 7)]
    /\ UNCHANGED call
    /\ LibOnly

\* Context.add_diagnostic_code: the chain on diagnostic_codes["diag_code"]
add_diagnostic_code_statement(t) ==
    /\ Runs(t, "add_diagnostic_code")
    /\ LET o == NestedWrite(ret.mem.diagnostic_codes, ret.thread[t].at,
                            call.ops[t].step_id, t)
       IN ret' = [ret EXCEPT !.mem.diagnostic_codes = o.d,
                             !.thread[t] = Goes(t, o, 6)]
    /\ UNCHANGED call
    /\ LibOnly

\* ResultCollector.add_diagnostic_keys: the chain on keys_to_set, which has
\* no root key
add_diagnostic_keys_statement(t) ==
    /\ Runs(t, "add_diagnostic_keys")
    /\ LET at == IF ret.thread[t].at = 0 THEN 2 ELSE ret.thread[t].at
           o == NestedWrite(ret.mem.keys_to_set, at, call.ops[t].step_id, t)
       IN ret' = [ret EXCEPT !.mem.keys_to_set = o.d,
                             !.thread[t] = Goes(t, o, 6)]
    /\ UNCHANGED call
    /\ LibOnly

\* Context.add_continued_step:
\*   0  if scenario_id not in self.continued_steps:
\*   1      self.continued_steps[scenario_id] = {}
\*   2  self.continued_steps[scenario_id][step_id] = step_info
add_continued_step_statement(t) ==
    /\ Runs(t, "add_continued_step")
    /\ LET s == call.ops[t].step_id
           at == ret.thread[t].at
           d == ret.mem.continued_steps
       IN CASE at = 0 ->
                 ret' = [ret EXCEPT !.thread[t].at = IF d.scenario THEN 2 ELSE 1]
            [] at = 1 ->
                 ret' = [ret EXCEPT
                     !.mem.continued_steps =
                         [scenario |-> TRUE, step |-> [x \in CalledStepIds |-> "absent"]],
                     !.thread[t].at = 2]
            [] OTHER ->
                 ret' = [ret EXCEPT !.mem.continued_steps.step[s] = "added",
                                    !.thread[t].state = "returned"]
    /\ UNCHANGED call
    /\ LibOnly

\* Context.mark_validated:
\*   0  if scenario_id in continued_steps and step_id in continued_steps[..]:
\*   1      self.continued_steps[scenario_id][step_id]["validated"] = True
mark_validated_statement(t) ==
    /\ Runs(t, "mark_validated")
    /\ LET s == call.ops[t].step_id
           at == ret.thread[t].at
           d == ret.mem.continued_steps
       IN CASE at = 0 ->
                 IF d.scenario /\ d.step[s] # "absent"
                 THEN ret' = [ret EXCEPT !.thread[t].at = 1]
                 ELSE ret' = [ret EXCEPT !.thread[t].state = "returned"]
            [] OTHER ->
                 IF d.step[s] = "absent"
                 THEN ret' = [ret EXCEPT !.thread[t].state = "raised"]
                 ELSE ret' = [ret EXCEPT !.mem.continued_steps.step[s] = "validated",
                                         !.thread[t].state = "returned"]
    /\ UNCHANGED call
    /\ LibOnly

\* ResultCollector.add_step_result:
\*   0  self.step_index[step_id] = len(self.step_results)
\*   1  self.step_results.append(result)
add_step_result_statement(t) ==
    /\ Runs(t, "add_step_result")
    /\ LET s == call.ops[t].step_id
       IN IF ret.thread[t].at = 0
          THEN ret' = [ret EXCEPT !.mem.step_index[s] = Len(ret.mem.step_results),
                                  !.thread[t].at = 1]
          ELSE ret' = [ret EXCEPT
                  !.mem.step_results =
                      Append(@, [step_id |-> s, by |-> t, updated |-> {}]),
                  !.thread[t].state = "returned"]
    /\ UNCHANGED call
    /\ LibOnly

\* ResultCollector.update_step_result:
\*   0  idx = self.step_index.get(step_id)
\*   1  if idx is not None: self.step_results[idx].update(kwargs)
\*      else: raise ValueError
update_step_result_statement(t) ==
    /\ Runs(t, "update_step_result")
    /\ LET s == call.ops[t].step_id
           idx == ret.thread[t].idx
       IN IF ret.thread[t].at = 0
          THEN ret' = [ret EXCEPT !.thread[t].idx = ret.mem.step_index[s],
                                  !.thread[t].at = 1]
          ELSE IF idx = -1 \/ idx >= Len(ret.mem.step_results)
          THEN ret' = [ret EXCEPT !.thread[t].state = "raised"]
          ELSE ret' = [ret EXCEPT !.mem.step_results[idx + 1].updated = @ \cup {t},
                                  !.thread[t].state = "returned"]
    /\ UNCHANGED call
    /\ LibOnly

ConcurrentNext ==
    \E t \in CallerThreads :
        \/ update_diagnostic_context_statement(t)
        \/ add_diagnostic_code_statement(t)
        \/ add_continued_step_statement(t)
        \/ mark_validated_statement(t)
        \/ add_step_result_statement(t)
        \/ update_step_result_statement(t)
        \/ add_diagnostic_keys_statement(t)

ConcurrentSpec == InitConcurrent /\ [][ConcurrentNext]_vars

\* the value thread t wrote with its call is in the object
WriteKept(t) ==
    LET s == call.ops[t].step_id
        method == call.ops[t].method
        mem == ret.mem
    IN CASE method = "update_diagnostic_context" ->
                t \in mem.diagnostic_context.val[s] /\ t \in mem.parameters_to_set
         [] method = "add_diagnostic_code" -> t \in mem.diagnostic_codes.val[s]
         [] method = "add_diagnostic_keys" -> t \in mem.keys_to_set.val[s]
         [] method = "add_continued_step" -> mem.continued_steps.step[s] # "absent"
         [] method = "add_step_result" ->
                \E i \in 1..Len(mem.step_results) :
                    mem.step_results[i].step_id = s /\ mem.step_results[i].by = t
         [] OTHER -> TRUE

\* C26: whatever the interleaving of two calls of the mutation methods, no
\* write is lost (once both calls are over, what each of them wrote is in the
\* object) and step_index never points at the entry of another step.
C26_ConcurrentCallsSafe ==
    call.fn = "concurrent"
       => /\ (\A t \in CallerThreads : ret.thread[t].state # "running")
                => \A t \in CallerThreads : WriteKept(t)
          /\ \A s \in CalledStepIds :
                LET idx == ret.mem.step_index[s]
                IN (idx # -1 /\ idx < Len(ret.mem.step_results))
                      => ret.mem.step_results[idx + 1].step_id = s

(***************************************************************************)
(* The connection handles of a run: ConnectionFactory                      *)
(* (system_connections/connection_factory.py) and its callers.             *)
(***************************************************************************)
MaxHandles == 4

\* (connection name, connection type) of a step
ConnectionPairs ==
    {<<"Inband", "ssh">>, <<"Inband", "redfish">>, <<"local", "local">>,
     <<"Inband", "serial">>}

\* ConnectionFactory.create_connection builds a connection for these; for
\* any other pair it raises ValueError
Supported(pair) == pair[2] \in {"ssh", "redfish"} \/ pair[1] = "local"

InitHandles ==
    /\ InitConnection /\ InitRun
    /\ call = [fn |-> "connections"]
    /\ ret = [returned |-> FALSE,
              handles |-> <<>>,
              connections |-> [pair \in ConnectionPairs |-> 0]]

\* CommandExecutor.execute: factory.create_connection(connection_name,
\* connection_type) and connection.connect(), which may fail; the handle is
\* kept by nobody once the step is over
ExecuteOnConnection ==
    /\ call.fn = "connections"
    /\ ~ret.returned
    /\ Len(ret.handles) < MaxHandles
    /\ \E pair \in ConnectionPairs, connected \in BOOLEAN :
          IF Supported(pair)
          THEN ret' = [ret EXCEPT !.handles =
                          Append(@, [pair |-> pair, connected |-> connected])]
          ELSE ret' = ret
    /\ UNCHANGED call
    /\ LibOnly

\* ConnectionFactory.get_connection, as LogAnalyzer and DockerExecutor call
\* it: the handle of the pair is created on first use and kept in
\* self.connections
get_connection ==
    /\ call.fn = "connections"
    /\ ~ret.returned
    /\ Len(ret.handles) < MaxHandles
    /\ \E pair \in ConnectionPairs, connected \in BOOLEAN :
          IF ret.connections[pair] = 0 /\ Supported(pair)
          THEN ret' = [ret EXCEPT
                  !.handles = Append(@, [pair |-> pair, connected |-> connected]),
                  !.connections[pair] = Len(ret.handles) + 1]
          ELSE ret' = ret
    /\ UNCHANGED call
    /\ LibOnly

\* ConnectionFactory.close_all_connections at the end of the run:
\* disconnect() on every value of self.connections, then clear()
close_all_connections ==
    /\ call.fn = "connections"
    /\ ~ret.returned
    /\ ret' = [returned |-> TRUE,
               handles |-> [i \in 1..Len(ret.handles) |->
                               IF \E pair \in ConnectionPairs : ret.connections[pair] = i
                               THEN [ret.handles[i] EXCEPT !.connected = FALSE]
                               ELSE ret.handles[i]],
               connections |-> [pair \in ConnectionPairs |-> 0]]
    /\ UNCHANGED call
    /\ LibOnly

HandlesNext == ExecuteOnConnection \/ get_connection \/ close_all_connections

HandlesSpec == InitHandles /\ [][HandlesNext]_vars

\* C27: during a run there is at most one connection handle for each
\* (connection name, connection type) pair, and once close_all_connections
\* has run every handle created during the run is disconnected.
C27_OneHandlePerPair ==
    call.fn = "connections"
       => /\ \A i, j \in 1..Len(ret.handles) :
                ret.handles[i].pair = ret.handles[j].pair => i = j
          /\ ret.returned => \A i \in 1..Len(ret.handles) : ~ret.handles[i].connected

(***************************************************************************)
(* RedfishConnection.execute_command                                       *)
(* (system_connections/redfish_connection.py)                              *)
(***************************************************************************)
\* the `method` keyword of a call
HttpMethods == {"GET", "get", "POST", "PUT", "PATCH", "DELETE", "TRACE"}

\* str.upper() on these
upper(method) == IF method = "get" THEN "GET" ELSE method

\* what the HTTP session does with a request: it answers, with or without a
\* body, or it raises; the exceptions of the HTTP library carry an attribute
\* `response` that is None when no answer was received, other exceptions
\* have no such attribute
RequestOutcomes ==
    {"json_body", "no_body", "raises_with_response_none", "raises_without_response"}

InitRedfish ==
    /\ InitConnection /\ InitRun
    /\ call \in [fn : {"redfish"}, connected : BOOLEAN, method : HttpMethods,
                 outcome : RequestOutcomes]
    /\ ret = NotReturned

\* the exception the try block of execute_command ends with, "" for none
RaisedInTry(method, outcome) ==
    IF upper(method) \notin {"GET", "POST", "PUT", "PATCH", "DELETE"}
    THEN "raises_without_response"          \* ValueError
    ELSE IF outcome \in {"json_body", "no_body"} THEN ""
    ELSE outcome

\* RedfishConnection.execute_command
execute_command ==
    /\ call.fn = "redfish"
    /\ ~ret.returned
    /\ LET e == RaisedInTry(call.method, call.outcome)
       IN ret' =
            IF ~call.connected
            THEN \* raise ConnectionError("Redfish connection not established")
                 [returned |-> TRUE, raised |-> TRUE, success |-> FALSE, error |-> ""]
            ELSE IF e = ""
            THEN [returned |-> TRUE, raised |-> FALSE, success |-> TRUE, error |-> ""]
            ELSE IF e = "raises_without_response"
            THEN \* getattr(e, "response", {}).get("status_code", -1) is -1
                 [returned |-> TRUE, raised |-> FALSE, success |-> FALSE, error |-> "str(e)"]
            ELSE \* getattr(e, "response", {}) is None: None.get raises in the handler
                 [returned |-> TRUE, raised |-> TRUE, success |-> FALSE, error |-> ""]
    /\ UNCHANGED call
    /\ LibOnly

RedfishSpec == InitRedfish /\ [][execute_command]_vars

\* C28: execute_command never raises; when the session is not connected, the
\* HTTP verb is unsupported or the request fails, it returns a structured
\* result with success = false and an error text.
C28_StructuredErrorNoRaise ==
    (call.fn = "redfish" /\ ret.returned)
       => /\ ~ret.raised
          /\ (~call.connected \/ RaisedInTry(call.method, call.outcome) # "")
                => ~ret.success /\ ret.error # ""

(***************************************************************************)
(* ResultCollector.filter_unique_diagnostics                               *)
(* (result_builder/result_builder.py).  An entry is a string, a list, a    *)
(* tuple or a dict; its items are its elements, each with the key it has   *)
(* in a dict ("" elsewhere); the items of a dict are kept sorted by key.   *)
(***************************************************************************)
MaxItems == 2
MaxEntries == 2

DiagCodes == {"E1"}

Item(k, v) == [k |-> k, v |-> v]

DiagEntries ==
    {[kind |-> "str", items |-> <<Item("", v)>>] : v \in {"E1", " E1", "a", ""}}
    \cup {[kind |-> "list", items |-> l] :
              l \in {<<>>, <<Item("", "a")>>, <<Item("", "E1")>>}}
    \cup {[kind |-> "tuple", items |-> <<Item("", "a")>>]}
    \cup {[kind |-> "dict", items |-> d] :
              d \in {<<Item("k", "E1")>>, <<Item("k", "a")>>,
                     <<Item("j", "E1"), Item("k", "a")>>}}

\* str.strip() on the strings above
strip(text) == IF text = " E1" THEN "E1" ELSE text

\* {k: v for k, v in entry.items() if v != code}
WithoutCode(items, code) == SelectSeq(items, LAMBDA it : it.v # code)

\* the tuple the entry is tracked by, without the filter on the dict values
entry_tuple_unfiltered(entry, code) == entry.items

\* entry_tuple: tuple(sorted(mew_entry.items())) for a dict, tuple(entry) for
\* a list or tuple, (entry,) for anything else
entry_tuple(entry, code) ==
    IF entry.kind = "dict" THEN WithoutCode(entry.items, code) ELSE entry.items

\* entry_data: the dict without the values equal to the code, or the entry
entry_data(entry, code) ==
    IF entry.kind = "dict"
    THEN [kind |-> "dict", items |-> WithoutCode(entry.items, code)]
    ELSE entry

\* `if entry_data:` -- not an empty string, list, tuple or dict
Truthy(entry) ==
    /\ entry.items # <<>>
    /\ entry.kind = "str" => entry.items[1].v # ""

\* the loop `for entry in entries` for one code, from the tracker and the
\* merged list reached so far
RECURSIVE merge_entries(_, _, _, _)
merge_entries(entries, code, unique_tracker, merged) ==
    IF entries = <<>> THEN merged
    ELSE LET entry == Head(entries)
             tup == entry_tuple(entry, code)
         IN IF entry.kind = "str" /\ strip(entry.items[1].v) = code
            THEN merge_entries(Tail(entries), code, unique_tracker, merged)
            ELSE IF tup \in unique_tracker
            THEN merge_entries(Tail(entries), code, unique_tracker, merged)
            ELSE merge_entries(Tail(entries), code, unique_tracker \cup {tup},
                     IF Truthy(entry_data(entry, code))
                     THEN Append(merged, entry_data(entry, code))
                     ELSE merged)

\* the entries of one code over the items of diagnostic_data, in order
RECURSIVE EntriesOf(_, _)
EntriesOf(diagnostic_data, code) ==
    IF diagnostic_data = <<>> THEN <<>>
    ELSE Head(diagnostic_data).codes[code] \o EntriesOf(Tail(diagnostic_data), code)

\* ResultCollector.filter_unique_diagnostics; a code without merged entries
\* is not a key of the result (here: it has the empty list)
filter_unique_diagnostics(diagnostic_data) ==
    [code \in DiagCodes |-> merge_entries(EntriesOf(diagnostic_data, code), code, {}, <<>>)]

\* the lists of at most n entries
RECURSIVE EntryLists(_)
EntryLists(n) ==
    IF n = 0 THEN {<<>>}
    ELSE EntryLists(n - 1)
            \cup {Append(l, e) : l \in {m \in EntryLists(n - 1) : Len(m) = n - 1},
                                 e \in DiagEntries}

DiagnosticItems == [codes : [DiagCodes -> EntryLists(MaxEntries)]]

InitFilter ==
    /\ InitConnection /\ InitRun
    /\ call \in [fn : {"filter"},
                 diagnostic_data : UNION {[1..n -> DiagnosticItems] : n \in 0..MaxItems}]
    /\ ret = [returned |-> FALSE, passes |-> 0,
              merged_codes |-> [code \in DiagCodes |-> <<>>],
              again |-> [code \in DiagCodes |-> <<>>]]

\* filter_unique_diagnostics on the diagnostics collected
Filter ==
    /\ call.fn = "filter"
    /\ ret.passes = 0
    /\ ret' = [ret EXCEPT !.passes = 1,
                          !.merged_codes = filter_unique_diagnostics(call.diagnostic_data)]
    /\ UNCHANGED call
    /\ LibOnly

\* filter_unique_diagnostics on its own result, as the codes of one item
FilterAgain ==
    /\ call.fn = "filter"
    /\ ret.passes = 1
    /\ ret' = [ret EXCEPT !.passes = 2, !.returned = TRUE,
                          !.again = filter_unique_diagnostics(<<[codes |-> ret.merged_codes]>>)]
    /\ UNCHANGED call
    /\ LibOnly

FilterNext == Filter \/ FilterAgain

FilterSpec == InitFilter /\ [][FilterNext]_vars

\* C29: filter_unique_diagnostics is idempotent: applied to its own output,
\* wrapped as the codes of one diagnostics item, it returns that same output,
\* for codes with string, list, tuple and dict entries.
C29_FilterIdempotent ==
    (call.fn = "filter" /\ ret.passes = 2) => ret.again = ret.merged_codes

\* the second pass has run on an output from which the first pass had removed
\* a duplicate and a dict value equal to the code
C29_Witness ==
    /\ call.fn = "filter" /\ ret.passes = 2
    /\ \E code \in DiagCodes :
          /\ Len(ret.merged_codes[code]) >= 2
          /\ Len(ret.merged_codes[code]) < Len(EntriesOf(call.diagnostic_data, code))
          /\ \E i \in 1..Len(ret.merged_codes[code]) :
                ret.merged_codes[code][i].kind = "dict"
          /\ \E i \in 1..Len(call.diagnostic_data) :
                \E j \in 1..Len(call.diagnostic_data[i].codes[code]) :
                    LET entry == call.diagnostic_data[i].codes[code][j]
                    IN entry.kind = "dict" /\ WithoutCode(entry.items, code) # entry.items

(***************************************************************************)
(* The registry lock in wait_for_task and terminate_task                   *)
(* (system_connections/local_connection.py, ssh_connection.py), with the   *)
(* entry into and the exit from every `with self.lock:` block explicit.    *)
(* One task, a thread in wait_for_task, a thread in terminate_task and the *)
(* task's worker at its last block.  A thread at a block under the lock    *)
(* first takes the lock, then runs the block and leaves it.                *)
(***************************************************************************)
LockThreads == {"waiter", "terminator", "worker"}

\* the blocks of each thread that are inside `with self.lock:`
UnderLock ==
    [waiter |-> {"lookup", "mark", "read", "timeout"},
     terminator |-> {"lookup", "store"},
     worker |-> {"move"}]

\* the places where a thread waits on the completion event, sleeps or
\* signals the process
Blocking ==
    [waiter |-> {"wait", "signal", "grace"},
     terminator |-> {"kill", "signal"},
     worker |-> {"command"}]

\* the holder of the lock when a thread stays in the block it should leave
StayInBlock(thread) == thread

\* the holder of the lock once `thread` has left its `with self.lock:` block
LeaveBlock(thread) == "none"

InitLocking ==
    /\ InitConnection /\ InitRun
    /\ call \in [fn : {"locking"}, transport : {"local", "ssh"},
                 timeout : {"none", "finite"}]
    /\ ret = [returned |-> FALSE,
              owner |-> "none",
              pc |-> [waiter |-> "lookup", terminator |-> "lookup", worker |-> "command"],
              registered |-> TRUE, stored |-> FALSE, completed |-> FALSE,
              queued |-> FALSE, is_terminated |-> FALSE]

\* `with self.lock:` is entered
AcquireLock(thread) ==
    /\ call.fn = "locking"
    /\ ret.owner = "none"
    /\ ret.pc[thread] \in UnderLock[thread]
    /\ ret' = [ret EXCEPT !.owner = thread]
    /\ UNCHANGED call
    /\ LibOnly

\* the thread is in a block under the lock it holds, or at a place outside
Runnable(thread) ==
    /\ call.fn = "locking"
    /\ ret.pc[thread] # "done"
    /\ ret.pc[thread] \in UnderLock[thread] => ret.owner = thread

\* wait_for_task, block by block:
\*   lookup   with self.lock: stored result / unknown id / take the task
\*   wait     background_task.completed.wait(timeout)
\*   mark, signal   (SSH, after the deadline) self.terminate_task(id)
\*   grace    (SSH) background_task.completed.wait(timeout=2.0)
\*   get      background_task.result_queue.get_nowait()
\*   read     with self.lock: return self.completed_tasks.get(id)
\*   timeout  with self.lock: stored result, or store a TIMEOUT result
wait_for_task_block ==
    /\ Runnable("waiter")
    /\ LET at == ret.pc.waiter
       IN CASE at = "lookup" ->
                 ret' = [ret EXCEPT
                     !.owner = LeaveBlock("waiter"),
                     !.pc.waiter = IF ret.stored \/ ~ret.registered THEN "done" ELSE "wait"]
            [] at = "wait" ->
                 /\ ret.completed \/ call.timeout = "finite"
                 /\ ret' = [ret EXCEPT !.pc.waiter =
                               IF ret.completed THEN "get"
                               ELSE IF call.transport = "ssh" THEN "mark" ELSE "get"]
            [] at = "mark" ->
                 ret' = [ret EXCEPT
                     !.owner = LeaveBlock("waiter"),
                     !.is_terminated = IF ret.registered THEN TRUE ELSE @,
                     !.pc.waiter = IF ret.registered THEN "signal" ELSE "grace"]
            [] at = "signal" -> ret' = [ret EXCEPT !.pc.waiter = "grace"]
            [] at = "grace" -> ret' = [ret EXCEPT !.pc.waiter = "get"]
            [] at = "get" ->
                 ret' = [ret EXCEPT
                     !.queued = FALSE,
                     !.pc.waiter = IF ret.queued THEN "done"
                                   ELSE IF ret.completed THEN "read" ELSE "timeout"]
            [] at = "read" ->
                 ret' = [ret EXCEPT !.owner = LeaveBlock("waiter"), !.pc.waiter = "done"]
            [] OTHER ->
                 ret' = [ret EXCEPT !.owner = LeaveBlock("waiter"),
                                    !.stored = TRUE, !.pc.waiter = "done"]
    /\ UNCHANGED call
    /\ LibOnly

\* terminate_task, block by block:
\*   lookup  with self.lock: unknown id returns False; (SSH) terminated = True
\*   kill    (local) process.terminate(), time.sleep(0.1), poll, kill
\*   store   (local) with self.lock: del background_tasks[id], store the result
\*   signal  (SSH) send Ctrl+C, time.sleep(0.1), close the channel
terminate_task_block ==
    /\ Runnable("terminator")
    /\ LET at == ret.pc.terminator
       IN CASE at = "lookup" ->
                 ret' = [ret EXCEPT
                     !.owner = LeaveBlock("terminator"),
                     !.is_terminated =
                         IF ret.registered /\ call.transport = "ssh" THEN TRUE ELSE @,
                     !.pc.terminator =
                         IF ~ret.registered THEN "done"
                         ELSE IF call.transport = "ssh" THEN "signal" ELSE "kill"]
            [] at = "kill" -> ret' = [ret EXCEPT !.pc.terminator = "store"]
            [] at = "store" ->
                 ret' = [ret EXCEPT !.owner = LeaveBlock("terminator"),
                                    !.registered = FALSE, !.stored = TRUE,
                                    !.pc.terminator = "done"]
            [] OTHER -> ret' = [ret EXCEPT !.pc.terminator = "done"]
    /\ UNCHANGED call
    /\ LibOnly

\* _background_worker: the command ends, then "Move task to completed tasks":
\*   with self.lock: if task_id in self.background_tasks:
\*       result_queue.put(result); completed.set(); del ...; store the result
background_worker_block ==
    /\ Runnable("worker")
    /\ IF ret.pc.worker = "command"
       THEN ret' = [ret EXCEPT !.pc.worker = "move"]
       ELSE ret' = [ret EXCEPT
               !.owner = LeaveBlock("worker"),
               !.queued = IF ret.registered THEN TRUE ELSE @,
               !.completed = IF ret.registered THEN TRUE ELSE @,
               !.stored = IF ret.registered THEN TRUE ELSE @,
               !.registered = FALSE,
               !.pc.worker = "done"]
    /\ UNCHANGED call
    /\ LibOnly

LockingNext ==
    \/ \E thread \in LockThreads : AcquireLock(thread)
    \/ wait_for_task_block
    \/ terminate_task_block
    \/ background_worker_block

LockingSpec == InitLocking /\ [][LockingNext]_vars

\* C30: in wait_for_task and terminate_task the registry lock is held only in
\* the blocks that read or write background_tasks / completed_tasks: a thread
\* that waits on the completion event, sleeps or signals the process does not
\* hold it, so whenever the worker is ready to publish its result the lock is
\* free or its holder is inside a registry block that it leaves at once.
C30_LockOnlyAroundRegistry ==
    call.fn = "locking"
       => /\ \A thread \in {"waiter", "terminator"} :
                /\ ret.pc[thread] \in Blocking[thread] => ret.owner # thread
                /\ ret.owner = thread => ret.pc[thread] \in UnderLock[thread]
          /\ (ret.pc.worker = "move" /\ ret.owner \notin {"none", "worker"})
                => /\ ret.pc[ret.owner] \in UnderLock[ret.owner]
                   /\ ENABLED (IF ret.owner = "waiter" THEN wait_for_task_block
                               ELSE terminate_task_block)

\* the worker holds the lock to publish its result while wait_for_task waits
\* on the completion event and terminate_task is killing the process
C30_Witness ==
    /\ call.fn = "locking"
    /\ ret.owner = "worker" /\ ret.pc.worker = "move"
    /\ ret.pc.waiter = "wait"
    /\ ret.pc.terminator = "kill"

(***************************************************************************)
(* The while loop of StepExecutor.run (core/step_executor.py), attempt by  *)
(* attempt.  What _execute_step does in its n-th call and whether the      *)
(* except branch then finds the duration elapsed are inputs.               *)
(***************************************************************************)
\* _execute_step returns (.., True, ..), returns (.., False, ..) or raises
AttemptOutcomes == {"success", "fail", "raise"}

\* the attempt ends the loop only when it returned a success
BreaksOnSuccess(outcome) == outcome = "success"

\* the attempt ends the loop: `break` after a failure as after a success
Breaks(outcome) == outcome # "raise"

InitRetry ==
    /\ InitConnection /\ InitRun
    /\ call \in [fn : {"retry"}, loop : 0..MaxLoop, duration : BOOLEAN,
                 outcome : [1..(MaxLoop + 1) -> AttemptOutcomes],
                 elapsed : [1..(MaxLoop + 1) -> BOOLEAN]]
    /\ ret = [returned |-> FALSE, attempts |-> 0, invoked |-> <<>>,
              status |-> TRUE, message |-> "Step executed successfully"]

\* one iteration of `while attempts < loop`
RetryAttempt ==
    /\ call.fn = "retry"
    /\ ~ret.returned
    /\ ret.attempts < call.loop
    /\ Len(ret.invoked) <= MaxLoop
    /\ LET n == Len(ret.invoked) + 1
           outcome == call.outcome[n]
           invoked == Append(ret.invoked, outcome)
       IN IF outcome # "raise"
          THEN ret' = [ret EXCEPT
                  !.invoked = invoked,
                  !.status = (outcome = "success"),
                  !.message = outcome,
                  !.returned = Breaks(outcome)]
          ELSE IF call.duration /\ call.elapsed[n]
          THEN ret' = [ret EXCEPT !.invoked = invoked, !.status = FALSE,
                                  !.message = "Step timed out", !.returned = TRUE]
          ELSE ret' = [ret EXCEPT !.invoked = invoked, !.attempts = ret.attempts + 1]
    /\ UNCHANGED call
    /\ LibOnly

\* the loop is exhausted: return output, status, message
RetryExhausted ==
    /\ call.fn = "retry"
    /\ ~ret.returned
    /\ ret.attempts >= call.loop
    /\ ret' = [ret EXCEPT !.returned = TRUE]
    /\ UNCHANGED call
    /\ LibOnly

RetryNext == RetryAttempt \/ RetryExhausted

RetrySpec == InitRetry /\ [][RetryNext]_vars

\* C31: an attempt that returns without raising, success or failure, ends the
\* retry loop (run has returned and no attempt follows it), so a step whose
\* first attempt returns is executed exactly once whatever `loop` is; and no
\* step is executed more than `loop` times.
C31_ReturnEndsRetry ==
    call.fn = "retry"
       => /\ Len(ret.invoked) <= call.loop
          /\ \A n \in 1..Len(ret.invoked) :
                ret.invoked[n] # "raise"
                   => /\ n = Len(ret.invoked)
                      /\ ret.returned
                      /\ ret.status = (ret.invoked[n] = "success")

\* a step with loop 2 whose second attempt, after one that raised, returned
\* a failure: run has returned with two executions
C31_Witness ==
    /\ call.fn = "retry"
    /\ call.loop = 2
    /\ ret.returned
    /\ ret.invoked = <<"raise", "fail">>

(***************************************************************************)
(* What a command step makes of the output of its command: synchronously   *)
(* in CommandExecutor.execute, and at scenario end in                      *)
(* CommandExecutor.validate_continued_step (executor/command_executor.py). *)
(***************************************************************************)
\* OutputAnalysis.analyze over all the rules: the keys after the last rule
RECURSIVE analyze(_, _, _)
analyze(rules, output, keys) ==
    IF rules = <<>> THEN keys
    ELSE analyze(Tail(rules), output,
             [keys EXCEPT ![Head(rules).parameter_to_set] =
                 IF re_search(Head(rules).regex, output) THEN "true" ELSE "false"])

\* a step has the output of its command; expected_output <<>> stands for a
\* step without expected output
InitVerdict ==
    /\ InitConnection /\ InitRun
    /\ call \in [fn : {"verdict"}, output : Strings(MaxText),
                 expected_output : Strings(MaxText), output_analysis : RuleLists(1)]
    /\ ret = [returned |-> FALSE, executed |-> FALSE, validated |-> FALSE,
              status |-> [mode \in {"synchronous", "continued"} |-> FALSE],
              keys |-> [mode \in {"synchronous", "continued"} |->
                           [key \in Names |-> "unset"]]]

\* CommandExecutor.execute after connection.execute_command: an empty output
\* fails the step at once; else the output analysis, then the validation
\* against the expected output when there is one
ExecuteSynchronous ==
    /\ call.fn = "verdict"
    /\ ~ret.executed
    /\ IF call.output = <<>>
       THEN ret' = [ret EXCEPT !.executed = TRUE, !.status.synchronous = FALSE]
       ELSE ret' = [ret EXCEPT
               !.executed = TRUE,
               !.keys.synchronous = analyze(call.output_analysis, call.output, @),
               !.status.synchronous =
                   call.expected_output = <<>>
                      \/ re_search(call.expected_output, call.output)]
    /\ UNCHANGED call
    /\ LibOnly

\* CommandExecutor.validate_continued_step after wait_for_task_with_details:
\* the output analysis, then the validation when there is an expected output
ValidateContinued ==
    /\ call.fn = "verdict"
    /\ ~ret.validated
    /\ ret' = [ret EXCEPT
            !.validated = TRUE,
            !.keys.continued = analyze(call.output_analysis, call.output, @),
            !.status.continued =
                call.expected_output = <<>>
                   \/ re_search(call.expected_output, call.output)]
    /\ UNCHANGED call
    /\ LibOnly

VerdictNext == ExecuteSynchronous \/ ValidateContinued

VerdictSpec == InitVerdict /\ [][VerdictNext]_vars

\* C32: for the same command output, expected output and output-analysis
\* rules, the step finalized as a continued step gets the same verdict and
\* sets the same diagnostic keys as the step run synchronously.
C32_SameVerdictAndKeys ==
    (call.fn = "verdict" /\ ret.executed /\ ret.validated)
       => /\ ret.status.continued = ret.status.synchronous
          /\ ret.keys.continued = ret.keys.synchronous

(***************************************************************************)
(* The loop `for match in matches` of DiagnosticAnalysis.search_and_manage *)
(* with the values it records.  A pattern is one character or `.`, with or *)
(* without a group around it, so finditer finds a match at every position  *)
(* of the text that has the character, and the group captures it.          *)
(***************************************************************************)
MatchPatterns == [char : {"o", "k", "."}, grouped : BOOLEAN]

\* the rules analyze hands to search_and_manage: search_string with a fixed
\* diagnostic_result_code, or diagnostic_search_string without one ("")
MatchRules == [pattern : MatchPatterns, diagnostic_result_code : {"", "E1"}]

RECURSIVE MatchRuleLists(_)
MatchRuleLists(n) ==
    IF n = 0 THEN {<<>>}
    ELSE MatchRuleLists(n - 1)
            \cup {Append(l, r) : l \in {m \in MatchRuleLists(n - 1) : Len(m) = n - 1},
                                 r \in MatchRules}

\* the keys diagnostics_map can get
MatchCodeNames == {"E1", "o", "k"}

InitMatches ==
    /\ InitConnection /\ InitRun
    /\ call \in [fn : {"matches"}, rules : MatchRuleLists(MaxRules),
                 output : Strings(MaxText)]
    /\ ret = [returned |-> FALSE, rule |-> 1, pos |-> 0, suppressed |-> 0,
              diagnostics_map |-> [code \in MatchCodeNames |->
                                      [present |-> FALSE, values |-> <<>>]]]

\* an insertion that never finds the value in the list
NeverInList(values, group_data) == FALSE

\* `group_data in diagnostics_map[diagnostic_result_code]`
InList(values, group_data) == \E i \in 1..Len(values) : values[i] = group_data

\* the text at the next position: a match of the rule's pattern gets its code
\* (the fixed one, else the text of the group, else none and the match is
\* passed over), the key is created and the captured value is appended when
\* there is one and it is not in the list yet
ScanMatch ==
    /\ call.fn = "matches"
    /\ ~ret.returned
    /\ ret.rule <= Len(call.rules)
    /\ ret.pos < Len(call.output)
    /\ LET rule == call.rules[ret.rule]
           found == call.output[ret.pos + 1]
           matches == rule.pattern.char \in {".", found}
           code == IF rule.diagnostic_result_code # "" THEN rule.diagnostic_result_code
                   ELSE IF rule.pattern.grouped THEN found
                   ELSE ""
           values == ret.diagnostics_map[code].values
       IN IF ~matches \/ code = ""
          THEN ret' = [ret EXCEPT !.pos = ret.pos + 1]
          ELSE IF ~rule.pattern.grouped
          THEN ret' = [ret EXCEPT !.pos = ret.pos + 1,
                                  !.diagnostics_map[code].present = TRUE]
          ELSE IF InList(values, found)
          THEN ret' = [ret EXCEPT !.pos = ret.pos + 1,
                                  !.suppressed = 1,
                                  !.diagnostics_map[code].present = TRUE]
          ELSE ret' = [ret EXCEPT !.pos = ret.pos + 1,
                                  !.diagnostics_map[code] =
                                      [present |-> TRUE, values |-> Append(values, found)]]
    /\ UNCHANGED call
    /\ LibOnly

\* search_and_manage returns; analyze goes to its next rule or returns
MatchesDone ==
    /\ call.fn = "matches"
    /\ ~ret.returned
    /\ ret.rule > Len(call.rules) \/ ret.pos = Len(call.output)
    /\ IF ret.rule > Len(call.rules)
       THEN ret' = [ret EXCEPT !.returned = TRUE]
       ELSE ret' = [ret EXCEPT !.rule = ret.rule + 1, !.pos = 0]
    /\ UNCHANGED call
    /\ LibOnly

MatchesNext == ScanMatch \/ MatchesDone

MatchesSpec == InitMatches /\ [][MatchesNext]_vars

\* C33: in the diagnostics map no code's value list holds the same captured
\* value twice, within one rule and across the rules of one analysis.
C33_NoDuplicateValue ==
    call.fn = "matches"
       => \A code \in MatchCodeNames :
             LET values == ret.diagnostics_map[code].values
             IN \A i, j \in 1..Len(values) : values[i] = values[j] => i = j

\* the second rule has met a value the first rule had recorded under the
\* same code, and has recorded another one
C33_Witness ==
    /\ call.fn = "matches"
    /\ ret.rule = 2
    /\ ret.suppressed = 1
    /\ Len(ret.diagnostics_map["E1"].values) = 2

(***************************************************************************)
(* Further properties of the task registry                                 *)
(***************************************************************************)
\* C34: a task id is never in background_tasks and in completed_tasks at the
\* same time: wherever a result is stored in completed_tasks, the task is
\* removed from background_tasks in the same block under the lock.
C34_RunningOrCompleted ==
    \A t \in TaskIds : ~(t \in background_tasks /\ completed_tasks[t] # None)

\* C35: a thread that waits in LocalConnection.wait_for_task, with or without
\* a timeout, on a running task that terminate_task then terminates (the
\* process has been killed and terminate_task is about to store its result),
\* is released: the call eventually returns, whatever the interleaving of the
\* waiter, the worker and the terminating thread.
C35_TerminateReleasesWaiter ==
    \A t \in TaskIds :
        (/\ conn[t] = "local"
         /\ wt_pc = "wait" /\ wt_task = t
         /\ worker[t] \in {"communicate", "publish"}
         /\ tm_task = t /\ tm_pc = "store" /\ process[t] = "exited")
        ~> (wt_pc = "idle")


\* C36: the SSH background worker never waits on the transport for the exit
\* status of a command that is still running while it holds the registry
\* lock, so a thread in terminate_task or wait_for_task can always take it.
C36_WorkerNeverBlocksUnderLock ==
    \A t \in TaskIds :
        ~(conn[t] = "ssh" /\ worker[t] = "blocked" /\ lock[t] /\ process[t] = "running")


\* C37: when the run has ended, after the finalization of the continued
\* steps, no background task whose worker was started and that the
\* finalization waited for is still in the table of running tasks or still
\* has a live process: a task whose wait timed out has been terminated.
C37_NoTaskLeftAtEnd ==
    run_pc = "returned" =>
        \A i \in 1..Len(continued_steps) :
            (continued_steps[i].validated /\ worker[continued_steps[i].task_id] # "idle") =>
                /\ continued_steps[i].task_id \notin background_tasks
                /\ process[continued_steps[i].task_id] # "running"


(***************************************************************************)
(* Further properties of the run of a scenario                             *)
(***************************************************************************)
\* C38: every call of StepExecutor.run on an inline step that invokes no
\* scenario has appended exactly one step result, of that step and under the
\* scenario id of the call, when it returns: also when the executor raised
\* on every attempt or the step timed out.
C38_OneResultPerRun ==
    [][(started' = started + 1 /\ (run_pc = "nested" \/ run_pc' # "nested"))
       => /\ Len(step_results') = Len(step_results) + 1
          /\ step_results'[Len(step_results')].step_id = last_run'.step_id
          /\ step_results'[Len(step_results')].scenario_id = last_run'.scenario_id]_vars


(***************************************************************************)
(* A synchronous command step: LocalConnection._execute_synchronous makes  *)
(* the TaskResult of the command, CommandExecutor.execute makes the        *)
(* verdict of the step from it.                                            *)
(***************************************************************************)
\* the largest exit code of a command
MaxReturnCode == 1

\* how the command ends: it exits, communicate(timeout) expires, or Popen raises
Endings == {"exit", "timeout", "raise"}

\* a command is about to be run for a step; expected_output <<>> stands for a
\* step without expected output
InitSync ==
    /\ InitConnection /\ InitRun
    /\ call \in [fn : {"sync"}, ending : Endings, returncode : 0..MaxReturnCode,
                 stdout : Strings(MaxText), expected_output : {<<>>, <<"o">>},
                 output_analysis : RuleLists(1)]
    /\ ret = [returned |-> FALSE, ran |-> FALSE, result |-> None, status |-> FALSE,
              keys |-> [key \in Names |-> "unset"]]

\* LocalConnection._execute_synchronous: COMPLETED for exit code 0, FAILED for
\* another one; TIMEOUT with what was printed when communicate expires;
\* FAILED with the stdout of the constructor when Popen raises
execute_synchronous ==
    /\ call.fn = "sync"
    /\ ~ret.ran
    /\ ret' = [ret EXCEPT
            !.ran = TRUE,
            !.result =
                CASE call.ending = "exit" ->
                        TaskResult(IF call.returncode = 0 THEN "COMPLETED" ELSE "FAILED",
                                   call.returncode, call.stdout, "")
                  [] call.ending = "timeout" ->
                        TaskResult("TIMEOUT", -1, call.stdout, "")
                  [] call.ending = "raise" ->
                        TaskResult("FAILED", -1, <<>>, "raised")]
    /\ UNCHANGED call
    /\ LibOnly

\* CommandExecutor.execute: output = result.stdout; if not output: failed
VerdictOfOutput(task_result) == task_result.stdout # <<>>

\* CommandExecutor.execute after connection.execute_command has returned the
\* result: the output analysis and the validation of a non-empty output
CommandExecute ==
    /\ call.fn = "sync"
    /\ ret.ran /\ ~ret.returned
    /\ IF ~VerdictOfOutput(ret.result)
       THEN ret' = [ret EXCEPT !.returned = TRUE, !.status = FALSE]
       ELSE ret' = [ret EXCEPT
               !.returned = TRUE,
               !.keys = analyze(call.output_analysis, ret.result.stdout, @),
               !.status = call.expected_output = <<>>
                             \/ re_search(call.expected_output, ret.result.stdout)]
    /\ UNCHANGED call
    /\ LibOnly

SyncNext == execute_synchronous \/ CommandExecute

SyncSpec == InitSync /\ [][SyncNext]_vars

\* C39: the verdict of a synchronous command step without expected output
\* follows the TaskResult of its command: the step succeeds if and only if
\* the status of the result is COMPLETED (exit code 0); a non-zero exit code
\* or a timeout gives a failed step.
C39_VerdictFollowsResult ==
    (call.fn = "sync" /\ ret.returned /\ call.expected_output = <<>>)
       => (ret.status <=> ret.result.status = "COMPLETED")


\* C40: an invoke_scenario step leaves the current test id of the Context as
\* it was for the invoking scenario: when the invoked scenario has returned,
\* test_id is the id of the parent again, so later steps of the parent record
\* their keys, codes and continued steps under the parent's test id.
C40_InvokeKeepsTestId ==
    [][(run_pc = "nested" /\ run_pc' # "nested") => test_id' = "T"]_vars

=============================================================================
